---- MODULE Spec2Model ----
(***************************************************************************)
(* A model of the reaction enrichment pipeline of mini-fedi                *)
(* (src/functions/api/home.ts): the admission gate (limiter), the page     *)
(* handler onRequestGet with its global budget and its Jobs, the origin    *)
(* note lookups getApShow / getNotesShow, and the reaction key resolver.   *)
(*                                                                         *)
(* Three specifications share the variables:                               *)
(*   SpecGate  the admission gate driven by one batch of Jobs              *)
(*   SpecRx    the reaction loop of one Job over one origin note           *)
(*   Spec      one page request, from the cookies to the response          *)
(***************************************************************************)
EXTENDS Integers, Sequences, FiniteSets, TLC

VARIABLES
    \* ---- the admission gate: limiter(concurrency) ----
    concurrency,   \* the argument of limiter()
    active,        \* limiter: let active
    queue,         \* limiter: const queue (the waiters' resolvers, by Job index)
    resuming,      \* the waiters whose promise was resolved and whose continuation
                   \* has yet to run, in the order of the resolutions
    jobs,          \* the batch handed to jobs.map(...)
    submitted,     \* how many Jobs jobs.map has handed to run() so far
    jpc,           \* each Job's position with respect to the gate
    maxInFlight,   \* the largest number of Job bodies seen in flight together
    \* ---- the request ----
    cookies,            \* parseCookies(request): the values of ap_token and ap_inst
    forceAllReactions,  \* mk_force=1
    prefetchMeta,       \* mk_prefetch !== "0"
    budgetMs,           \* mk_budget_ms
    merge,              \* merge !== "0"
    mergeLimit,         \* merge_limit
    debug,              \* debug=1
    \* ---- the page handler onRequestGet ----
    now,           \* Date.now()
    hardStart,     \* const hardStart
    hpc,           \* the handler's position
    statuses,      \* the timeline page, each post with its enrichment slot
    response,      \* what the handler answered, or the exception it threw
    pf,            \* the prefetch: host -> "pending" | "done"
    pfUntil,       \* when the prefetch timer of home.ts 500 fires
    next_max_id,   \* const next_max_id
    triedCount,    \* let triedCount
    mergedCount,   \* let mergedCount
    errorCount,    \* let errorCount
    counters,      \* const counters, the diagnostics counters of the response
    \* ---- the caches and the world behind them ----
    metaMem,       \* const metaMem: host -> indexed metadata (process tier)
    kv,            \* env.FEDIOAUTH_KV: key -> [text, ttl] (durable tier)
    netLog,        \* the network calls issued, in order
    timeline,      \* the page the timeline source holds for this request
    originMeta,    \* host -> what the host's /api/meta answers
    linkHeader,    \* the Link header of the timeline response
    \* ---- the body of each Job ----
    step,          \* the Job body's position
    jinfo,         \* what the Job body did: its events, its timeout, its outcome
    obj,           \* the origin note the Job resolved
    rxMeta,        \* const meta = prefetchMeta ? metaMem.get(job.host) || null : null
    rxI,           \* the reaction loop's position in Object.keys(reactions)
    out,           \* const out: MkRx[]
    lastRx,        \* the last turn of a reaction loop, or the last lookup made on
                   \* its own: its key and its result
    \* ---- one call of fetchRetry ----
    fr,            \* its options, its position, the answers it saw, the delays
                   \* it slept, and what it returned
    \* ---- calls of getMisskeyMeta under way together ----
    lk             \* each call's host, its position, and what it holds

gateVars == <<concurrency, active, queue, resuming, jobs, submitted, jpc, maxInFlight>>
reqVars == <<cookies, forceAllReactions, prefetchMeta, budgetMs, merge, mergeLimit, debug>>
handlerVars == <<now, hardStart, hpc, response, pf, pfUntil, next_max_id>>
countVars == <<triedCount, mergedCount, errorCount, counters>>
cacheVars == <<metaMem, kv, netLog>>
worldVars == <<timeline, originMeta, linkHeader>>
bodyVars == <<step, jinfo, obj, rxMeta, rxI, out, lastRx>>

vars == <<concurrency, active, queue, resuming, jobs, submitted, jpc, maxInFlight,
          cookies, forceAllReactions, prefetchMeta, budgetMs, merge, mergeLimit,
          debug, now, hardStart, hpc, statuses, response, pf, pfUntil, next_max_id,
          triedCount, mergedCount, errorCount, counters, metaMem, kv, netLog,
          timeline,
          originMeta, linkHeader, step, jinfo, obj, rxMeta, rxI, out, lastRx, fr, lk>>

-----------------------------------------------------------------------------
(* Bounds of the model *)

\* the largest batch SpecGate submits
MaxGateJobs == 7

\* limiter(6) in the page handler
GateLimit == 6

-----------------------------------------------------------------------------
(* Helpers *)


Range(xs) == { xs[i] : i \in 1..Len(xs) }
Min(a, b) == IF a <= b THEN a ELSE b
Max(a, b) == IF a >= b THEN a ELSE b

JobIds == 1..Len(jobs)

\* Job bodies started and not yet finished
InFlight == {j \in JobIds : jpc[j] = "running"}

-----------------------------------------------------------------------------
(* Strings are sequences of one-character tokens; the empty string <<>> is
   JavaScript's falsy string and also stands for null / undefined where the
   code only tests truthiness (url || null, host || null). *)

Falsy(s) == s = <<>>

\* String.prototype.toLowerCase on the alphabet of the model
LowerChar(c) ==
    CASE c = "A" -> "a"
      [] c = "B" -> "b"
      [] c = "R" -> "r"
      [] OTHER -> c

toLowerCase(s) == [i \in 1..Len(s) |-> LowerChar(s[i])]

RECURSIVE trimStart(_)
trimStart(s) == IF s # <<>> /\ Head(s) = " " THEN trimStart(Tail(s)) ELSE s

RECURSIVE trimEnd(_)
trimEnd(s) ==
    IF s # <<>> /\ s[Len(s)] = " " THEN trimEnd(SubSeq(s, 1, Len(s) - 1)) ELSE s

trim(s) == trimEnd(trimStart(s))

\* s.replace(/^:/, "")
StripLeadingColon(s) == IF s # <<>> /\ Head(s) = ":" THEN Tail(s) ELSE s

\* s.replace(/:$/, "")
StripTrailingColon(s) ==
    IF s # <<>> /\ s[Len(s)] = ":" THEN SubSeq(s, 1, Len(s) - 1) ELSE s

\* s.replace(/-/g, "_") and s.replace(/_/g, "-")
ReplaceAll(s, from, to) == [i \in 1..Len(s) |-> IF s[i] = from THEN to ELSE s[i]]

includes(s, c) == \E i \in 1..Len(s) : s[i] = c

\* the index of the first c in s from position i on, or Len(s) + 1
RECURSIVE IndexFrom(_, _, _)
IndexFrom(s, c, i) ==
    IF i > Len(s) THEN Len(s) + 1
    ELSE IF s[i] = c THEN i ELSE IndexFrom(s, c, i + 1)

\* const [name, host] = s.split("@"): the first two pieces; host is undefined
\* (here <<>>) when s holds no "@"
SplitAtName(s) == SubSeq(s, 1, IndexFrom(s, "@", 1) - 1)
SplitAtHost(s) ==
    LET a == IndexFrom(s, "@", 1)
    IN  IF a > Len(s) THEN <<>>
        ELSE SubSeq(s, a + 1, IndexFrom(s, "@", a + 1) - 1)

\* home.ts 172-174: String(s || "").replace(/^:|:$/g, "").trim().toLowerCase()
normalizeName(s) == toLowerCase(trim(StripTrailingColon(StripLeadingColon(s))))

\* home.ts 175-177: (h || "").trim().toLowerCase() || null
normalizeHost(h) == toLowerCase(trim(h))

\* Array.from(new Set(xs)): first occurrences, in order
RECURSIVE Dedup(_)
Dedup(xs) ==
    IF xs = <<>> THEN <<>>
    ELSE LET init == Dedup(SubSeq(xs, 1, Len(xs) - 1))
             x == xs[Len(xs)]
         IN  IF \E i \in 1..Len(init) : init[i] = x THEN init ELSE Append(init, x)

\* home.ts 178-183
variantsOfName(n) ==
    LET base == normalizeName(n)
        underscore == ReplaceAll(base, "-", "_")
        hyphen == ReplaceAll(base, "_", "-")
    IN  Dedup(<<base, underscore, hyphen>>)

\* home.ts 230-235
parseMkReactionKey(key) ==
    IF ~includes(key, ":")
    THEN [kind |-> "unicode", name |-> normalizeName(key), host |-> <<>>]
    ELSE LET trimmed == StripTrailingColon(StripLeadingColon(key))
         IN  [kind |-> "custom",
              name |-> normalizeName(SplitAtName(trimmed)),
              host |-> normalizeHost(SplitAtHost(trimmed))]

-----------------------------------------------------------------------------
(* Host metadata and its index: home.ts 189-200, 238-297 *)

\* a JavaScript Map as a function on its key set; Map.get of a missing key
\* gives undefined, modelled by the falsy default handed in
MapSet(m, k, v) == [x \in (DOMAIN m) \cup {k} |-> IF x = k THEN v ELSE m[x]]
MapGet(m, k, undef) == IF k \in DOMAIN m THEN m[k] ELSE undef

\* for (const v of vs) m.set(v, val)
RECURSIVE MapSetAll(_, _, _)
MapSetAll(m, vs, val) ==
    IF vs = <<>> THEN m ELSE MapSetAll(MapSet(m, Head(vs), val), Tail(vs), val)

\* what /api/meta answers for a host with no emoji and no alias
EmptyRawMeta == [emojis |-> <<>>, reactionEmojis |-> <<>>]

\* no metadata for the host: metaMem.get(host) || null, or mk_prefetch=0
NoMeta == [present |-> FALSE]

\* resolveAliasFromMeta's null
NoAlias == [kind |-> "none", name |-> <<>>, host |-> <<>>, char |-> <<>>]

\* home.ts 240-250: emojiByName; a later entry overwrites an earlier one
EmojiIndex(list) ==
    LET F[i \in 0..Len(list)] ==
            IF i = 0 THEN <<>>
            ELSE IF Falsy(list[i].url) \/ Falsy(list[i].name) THEN F[i - 1]
                 ELSE MapSetAll(F[i - 1], variantsOfName(list[i].name), list[i].url)
    IN  F[Len(list)]

\* home.ts 266-280: one alias value, trimmed, as a custom reference or a glyph
AliasEntry(val) ==
    LET s == trim(val)
    IN  IF Len(s) >= 2 /\ Head(s) = ":" /\ s[Len(s)] = ":"
        THEN LET body == SubSeq(s, 2, Len(s) - 1)
             IN  [kind |-> "custom",
                  name |-> normalizeName(SplitAtName(body)),
                  host |-> normalizeHost(SplitAtHost(body)),
                  char |-> <<>>]
        ELSE [kind |-> "unicode", name |-> <<>>, host |-> <<>>, char |-> s]

\* home.ts 258-283: aliasByKey over Object.entries(maps)
AliasIndex(maps) ==
    LET F[i \in 0..Len(maps)] ==
            IF i = 0 THEN <<>>
            ELSE MapSetAll(F[i - 1], variantsOfName(maps[i][1]), AliasEntry(maps[i][2]))
    IN  F[Len(maps)]

\* home.ts 238-287: metaRaw is [emojis, reactionEmojis]
buildMetaIndex(metaRaw) ==
    [present |-> TRUE,
     emojis |-> metaRaw.emojis,
     reactionEmojis |-> metaRaw.reactionEmojis,
     _emojiByName |-> EmojiIndex(metaRaw.emojis),
     _aliasByKey |-> AliasIndex(metaRaw.reactionEmojis)]

\* the first truthy m.get(v) over vs, else undef
RECURSIVE FirstHit(_, _, _)
FirstHit(m, vs, undef) ==
    IF vs = <<>> THEN undef
    ELSE IF MapGet(m, Head(vs), undef) # undef THEN m[Head(vs)]
         ELSE FirstHit(m, Tail(vs), undef)

\* home.ts 289-297
resolveEmojiUrlFromMeta(meta, name) ==
    IF ~meta.present THEN <<>>
    ELSE FirstHit(meta._emojiByName, variantsOfName(name), <<>>)

\* home.ts 189-200
resolveAliasFromMeta(meta, keyNorm) ==
    IF ~meta.present THEN NoAlias
    ELSE FirstHit(meta._aliasByKey, variantsOfName(keyNorm), NoAlias)

\* home.ts 299-314: tags is the note's tag list, each [type, name, url]
RECURSIVE resolveEmojiUrlFromApTag(_, _)
resolveEmojiUrlFromApTag(tags, name) ==
    IF tags = <<>> THEN <<>>
    ELSE LET t == Head(tags)
             tname == StripTrailingColon(StripLeadingColon(t.name))
         IN  IF t.type = "Emoji" /\ normalizeName(tname) = normalizeName(name)
             THEN t.url
             ELSE resolveEmojiUrlFromApTag(Tail(tags), name)

-----------------------------------------------------------------------------
(* The two cache tiers and the origin calls behind them.

   An environment e is [mem, kv, log]: the process tier metaMem, the durable
   tier FEDIOAUTH_KV and the log of the network calls issued so far.  A lookup
   is an operator from an environment and the outcome of its network call to
   [threw, val, env]. *)

\* expirationTtl of the durable entries, in seconds
MetaTtl == 86400
NoteTtl == 120
ProbeTtl == 604800
ProbeNegativeTtl == 900

\* the public asset paths probeEmojiUrl tries, in order (home.ts 50-58)
ProbePaths ==
    << <<"/emoji/", ".webp">>, <<"/emoji/", ".png">>, <<"/emoji/", ".gif">>,
       <<"/assets/emoji/", ".webp">>, <<"/assets/emoji/", ".png">>,
       <<"/assets/emoji/", ".gif">> >>

ProbeUrl(host, name, i) ==
    <<"https://">> \o host \o <<ProbePaths[i][1]>> \o name \o <<ProbePaths[i][2]>>

\* JSON.stringify / JSON.parse: a text is [t, v]; a text that does not parse
\* has t = "corrupt"
JsonNull == [t |-> "null", v |-> <<>>]
JsonString(x) == [t |-> "string", v |-> x]
JsonObject(x) == [t |-> "object", v |-> x]
JsonParses(text) == text.t # "corrupt"

\* KV.get gives null for a missing key; KV.put stores the text with its ttl,
\* the seconds the entry has left
KvHas(e, key) == key \in DOMAIN e.kv
KvPut(e, key, text, ttl) ==
    [e EXCEPT !.kv = MapSet(e.kv, key, [text |-> text, ttl |-> ttl])]

\* d seconds later: the entries that had no more than d seconds left are gone
KvAged(m, d) ==
    [k \in {x \in DOMAIN m : m[x].ttl > d} |-> [m[k] EXCEPT !.ttl = @ - d]]

Call(op, host, name, n) == [op |-> op, host |-> host, name |-> name, n |-> n]
Logged(e, c) == [e EXCEPT !.log = Append(e.log, c)]

Returned(val, e) == [threw |-> FALSE, val |-> val, env |-> e]
Thrown(val, e) == [threw |-> TRUE, val |-> val, env |-> e]

\* home.ts 32-34
emojiUrlCacheKey(host, name) == <<"mk:emojiurl:">> \o host \o <<":">> \o name

\* home.ts 336-338 and 354-357: index, metaMem.set, and after an origin fetch
\* KV.put of the raw answer
MutMetaIndexedNoMem(e, host, withIndex) == Returned(withIndex, e)
MetaIndexed(e, host, withIndex) ==
    Returned(withIndex, [e EXCEPT !.mem = MapSet(e.mem, host, withIndex)])
MetaFetched(e, host, served) ==
    MetaIndexed(KvPut(e, <<"mkmeta:">> \o host, JsonObject(served), MetaTtl), host,
                buildMetaIndex(served))

\* home.ts 342-357: the origin fetch of /api/meta, already logged in e.
\* outcome is "ok", "notok" (a non-success status) or "throw" (timeout,
\* transport failure, unparseable body)
MetaFromOrigin(e, host, outcome, served) ==
    CASE outcome = "throw" -> Thrown(NoMeta, e)
      [] outcome = "notok" -> Returned(NoMeta, e)
      [] OTHER -> MetaFetched(e, host, served)

\* home.ts 327-358, host normalised.  served is what the host's /api/meta answers
MutMetaLookupDurableFirst(e, host, outcome, served) ==
    IF KvHas(e, <<"mkmeta:">> \o host) /\ JsonParses(e.kv[<<"mkmeta:">> \o host].text)
    THEN MetaIndexed(e, host, buildMetaIndex(e.kv[<<"mkmeta:">> \o host].text.v))
    ELSE IF host \in DOMAIN e.mem THEN Returned(e.mem[host], e)
    ELSE MetaFromOrigin(Logged(e, Call("meta", host, <<>>, 0)), host, outcome, served)
MetaLookup(e, host, outcome, served) ==
    IF host \in DOMAIN e.mem THEN Returned(e.mem[host], e)
    ELSE IF ~e.kvUp THEN Thrown(NoMeta, e)
    ELSE IF KvHas(e, <<"mkmeta:">> \o host) /\ JsonParses(e.kv[<<"mkmeta:">> \o host].text)
    THEN MetaIndexed(e, host, buildMetaIndex(e.kv[<<"mkmeta:">> \o host].text.v))
    ELSE MetaFromOrigin(Logged(e, Call("meta", host, <<>>, 0)), host, outcome, served)

\* home.ts 327-358
getMisskeyMeta(e, host, outcome, served) ==
    MetaLookup(e, normalizeHost(host), outcome, served)

\* the probing loop of home.ts 61-72 up to candidate upto
RECURSIVE ProbeAttempts(_, _, _, _)
ProbeAttempts(e, host, name, upto) ==
    IF upto = 0 THEN e
    ELSE Logged(ProbeAttempts(e, host, name, upto - 1), Call("probe", host, name, upto))

\* home.ts 61-75: win is the first candidate that answers with a success status
\* and an image content type, 0 when none does
MutProbeFoundShortLived(e, host, name, url) ==
    Returned(url, KvPut(e, emojiUrlCacheKey(host, name), JsonString(url), ProbeNegativeTtl))
ProbeFound(e, host, name, url) ==
    Returned(url, KvPut(e, emojiUrlCacheKey(host, name), JsonString(url), ProbeTtl))
MutProbeNotFoundUncached(e, host, name) == Returned(<<>>, e)
ProbeNotFound(e, host, name) ==
    Returned(<<>>, KvPut(e, emojiUrlCacheKey(host, name), JsonNull, ProbeNegativeTtl))

\* home.ts 38-76, host and name trimmed and lower-cased
ProbeLookup(e, host, name, win) ==
    IF Falsy(host) \/ Falsy(name) THEN Returned(<<>>, e)
    ELSE IF ~e.kvUp THEN Thrown(<<>>, e)
    ELSE IF KvHas(e, emojiUrlCacheKey(host, name))
            /\ JsonParses(e.kv[emojiUrlCacheKey(host, name)].text)
    THEN Returned(e.kv[emojiUrlCacheKey(host, name)].text.v, e)
    ELSE IF win > 0
    THEN ProbeFound(ProbeAttempts(e, host, name, win), host, name,
                    ProbeUrl(host, name, win))
    ELSE ProbeNotFound(ProbeAttempts(e, host, name, Len(ProbePaths)), host, name)

\* home.ts 38-76
probeEmojiUrl(e, host, name, win) ==
    ProbeLookup(e, toLowerCase(trim(host)), toLowerCase(trim(name)), win)

\* home.ts 365-370: m is what getMisskeyMeta(...).catch(() => null) gave
EmojiUrlAfterMeta(m, byMeta, host, name, win) ==
    IF ~Falsy(byMeta) THEN Returned(byMeta, m.env)
    ELSE probeEmojiUrl(m.env, host, name, win)
EmojiUrlWithMeta(m, host, name, win) ==
    EmojiUrlAfterMeta(m, IF m.threw THEN <<>> ELSE resolveEmojiUrlFromMeta(m.val, name),
                      host, name, win)

\* home.ts 361-371
getEmojiUrlFromHost(e, host, name, outcome, served, win) ==
    EmojiUrlWithMeta(getMisskeyMeta(e, normalizeHost(host), outcome, served),
                     normalizeHost(host), normalizeName(name), win)

-----------------------------------------------------------------------------
(* The reaction loop of one Job: home.ts 576-705 *)

\* reactions[rawKey] ?? 0: a raw count is <<n>>, or <<>> for null / missing
CountOf(raw) == IF raw = <<>> THEN 0 ELSE raw[1]

\* `if (!count && !forceAllReactions) continue`
MutSkipNever(count, force) == FALSE
SkipZero(count, force) == count = 0 /\ ~force

\* new URL(url).host.toLowerCase(), which throws for a url that is not absolute
PathTokens == {"/emoji/", "/assets/emoji/", "/a.png", "/b.png", "/c.png", "/t.png",
               "/notes/", "/users/", "/"}
RECURSIVE UpToPath(_)
UpToPath(s) ==
    IF s = <<>> \/ Head(s) \in PathTokens THEN <<>> ELSE <<Head(s)>> \o UpToPath(Tail(s))
UrlParses(url) ==
    /\ Len(url) >= 2
    /\ Head(url) \in {"https://", "http://"}
    /\ url[2] \notin PathTokens
UrlHost(url) == toLowerCase(UpToPath(Tail(url)))

\* home.ts 316-324: the first path segment after /notes/, when it is alphanumeric
UrlPath(url) == SubSeq(url, 2 + Len(UpToPath(Tail(url))), Len(url))
NoteIdOfPath(path) ==
    IF Len(path) >= 2 /\ path[1] = "/notes/" /\ path[2] \notin PathTokens
    THEN <<path[2]>> ELSE <<>>
MutNoteIdOfAnyPath(apUri) ==
    IF UrlParses(apUri) /\ Len(UrlPath(apUri)) >= 2 THEN <<UrlPath(apUri)[2]>> ELSE <<>>
extractMisskeyNoteIdFromApUri(apUri) ==
    IF UrlParses(apUri) THEN NoteIdOfPath(UrlPath(apUri)) ELSE <<>>

Descriptor(name, url, count, char, host, branch) ==
    [name |-> name, url |-> url, count |-> count, char |-> char, host |-> host,
     branch |-> branch]

NoDescriptor == Descriptor(<<>>, <<>>, 0, <<>>, <<>>, "none")

\* no turn of a reaction loop has run yet
NoRx == [job |-> 0, key |-> <<>>, raw |-> <<>>, emit |-> FALSE, d |-> NoDescriptor,
         urlFrom |-> "none"]

\* the result of one turn of the loop: emit says whether out.push happened
RxResult(emit, d, e, urlFrom) == [emit |-> emit, d |-> d, env |-> e, urlFrom |-> urlFrom]

\* a URL tier's answer: the url so far, the tier it came from, the environment
Tier(url, from, e) == [url |-> url, from |-> IF Falsy(url) THEN "none" ELSE from, env |-> e]
\* an awaited lookup that rejected leaves the exception in flight
TierOf(r, from) ==
    IF r.threw THEN [url |-> <<>>, from |-> "threw", env |-> r.env]
    ELSE Tier(r.val, from, r.env)

\* home.ts 629-634: the origin host's metadata
TierMeta(e, meta, name) == Tier(resolveEmojiUrlFromMeta(meta, name), "meta", e)

\* home.ts 636-646: the host the key or its alias names.  oracle is [meta, win]:
\* the outcome of a remote /api/meta call and the winning probe candidate;
\* served maps a host to what its /api/meta answers
TierRemote(acc, h, name, oracle, served) ==
    IF ~Falsy(acc.url) \/ Falsy(h) \/ acc.from = "threw" THEN acc
    ELSE TierOf(getEmojiUrlFromHost(acc.env, h, name, oracle.meta,
                                    MapGet(served, h, EmptyRawMeta), oracle.win),
                "remote_meta")

\* home.ts 648-657: the Emoji tags of the origin note
TierTag(acc, tags, name) ==
    IF ~Falsy(acc.url) \/ acc.from = "threw" THEN acc
    ELSE Tier(resolveEmojiUrlFromApTag(tags, name), "ap_tag", acc.env)

\* home.ts 662-674: public-path probing
TierProbe(acc, probeHost, name, win) ==
    IF ~Falsy(acc.url) \/ Falsy(probeHost) \/ acc.from = "threw" THEN acc
    ELSE TierOf(probeEmojiUrl(acc.env, probeHost, name, win), "probe")

\* home.ts 677-691
ItemHost(acc, h, jobHost) ==
    CASE acc.from = "remote_meta" -> h
      [] ~Falsy(acc.url) ->
            IF UrlParses(acc.url) THEN UrlHost(acc.url) ELSE toLowerCase(jobHost)
      [] ~Falsy(h) -> h
      [] OTHER -> toLowerCase(jobHost)

\* home.ts 692-700: out.push({ name, url: urlHit || null, count, host: itemHost })
MutCustomEmitWithoutUrl(acc, name, count, h, jobHost) ==
    RxResult(TRUE,
             Descriptor(name, <<>>, count, <<>>, ItemHost(acc, h, jobHost), "custom"),
             acc.env, acc.from)
CustomEmit(acc, name, count, h, jobHost) ==
    RxResult(TRUE,
             Descriptor(name, acc.url, count, <<>>, ItemHost(acc, h, jobHost), "custom"),
             acc.env, acc.from)

\* home.ts 625-700: the tiers ran to their end, or one of them threw
CustomDone(acc, name, count, h, jobHost) ==
    IF acc.from = "threw" THEN RxResult(FALSE, NoDescriptor, acc.env, "threw")
    ELSE CustomEmit(acc, name, count, h, jobHost)

\* home.ts 625-700, with name and h normalised
CustomTiers(e, name, h, count, meta, tags, jobHost, oracle, served) ==
    CustomDone(
        TierProbe(
            TierTag(TierRemote(TierMeta(e, meta, name), h, name, oracle, served),
                    tags, name),
            IF ~Falsy(h) THEN h ELSE jobHost, name, oracle.win),
        name, count, h, jobHost)

\* home.ts 625-700: the custom branch.  kindInfo is [kind, name, host]
CustomBranch(e, kindInfo, count, meta, tags, jobHost, oracle, served) ==
    CustomTiers(e, normalizeName(kindInfo.name), normalizeHost(kindInfo.host), count,
                meta, tags, jobHost, oracle, served)

\* home.ts 600-608: a custom alias replaces the parsed key
MutAliasedIgnored(parsed, alias) == parsed
Aliased(parsed, alias) ==
    IF alias.kind = "custom"
    THEN [kind |-> "custom",
          name |-> normalizeName(alias.name),
          host |-> IF ~Falsy(normalizeHost(alias.host))
                   THEN normalizeHost(alias.host) ELSE parsed.host]
    ELSE parsed

\* home.ts 610-614: a key without colons that the metadata knows is custom
MutReclassifiedAlways(kindInfo, byMeta, keyNorm) ==
    [kind |-> "custom", name |-> keyNorm, host |-> <<>>]
Reclassified(kindInfo, byMeta, keyNorm) ==
    IF kindInfo.kind = "unicode" /\ ~Falsy(byMeta)
    THEN [kind |-> "custom", name |-> keyNorm, host |-> <<>>]
    ELSE kindInfo

\* home.ts 616-700: the unicode branch or the custom branch
Branch(e, kindInfo, count, meta, tags, jobHost, oracle, served) ==
    IF kindInfo.kind = "unicode"
    THEN RxResult(TRUE,
                  Descriptor(kindInfo.name, <<>>, count, kindInfo.name, <<>>, "unicode"),
                  e, "none")
    ELSE CustomBranch(e, kindInfo, count, meta, tags, jobHost, oracle, served)

\* home.ts 588-700: the alias decides first
Classified(e, keyNorm, parsed, alias, count, meta, tags, jobHost, oracle, served) ==
    IF alias.kind = "unicode"
    THEN RxResult(TRUE,
                  Descriptor(alias.char, <<>>, count, alias.char, <<>>, "alias_unicode"),
                  e, "none")
    ELSE Branch(e,
                Reclassified(Aliased(parsed, alias),
                             resolveEmojiUrlFromMeta(meta, keyNorm), keyNorm),
                count, meta, tags, jobHost, oracle, served)

\* home.ts 581 and 701-704: the try of one key holds what its body threw; the
\* turn ends without a descriptor
MutKeyCatchNothing(r) == r
KeyCatch(r) == IF r.urlFrom = "threw" THEN [r EXCEPT !.urlFrom = "key_error"] ELSE r

\* home.ts 576-704: one turn of the loop, for rawKey with its raw count
ResolveKey(e, rawKey, raw, meta, tags, force, jobHost, oracle, served) ==
    IF SkipZero(CountOf(raw), force) THEN RxResult(FALSE, NoDescriptor, e, "skipped")
    ELSE KeyCatch(Classified(e, normalizeName(rawKey), parseMkReactionKey(rawKey),
                             resolveAliasFromMeta(meta, normalizeName(rawKey)),
                             CountOf(raw), meta, tags, jobHost, oracle, served))

\* home.ts 461-468: const counters
NoCounters ==
    [alias_hits |-> 0, meta_hits |-> 0, remote_hits |-> 0, tag_hits |-> 0,
     unicode_pass |-> 0, custom_without_url |-> 0]

\* the counter++ statements of one turn (home.ts 593-594, 601, 617, 631, 641,
\* 652, 667, 694): r is the turn's result, aliasHit says whether the alias
\* table had an entry for the key
MutCountedWithoutNone(c, r, aliasHit) == c
Counted(c, r, aliasHit) ==
    IF r.urlFrom \in {"threw", "key_error"}
    THEN [c EXCEPT !.alias_hits = @ + (IF aliasHit THEN 1 ELSE 0)]
    ELSE IF ~r.emit THEN c
    ELSE [c EXCEPT
            !.alias_hits = @ + (IF aliasHit THEN 1 ELSE 0),
            !.unicode_pass = @ + (IF r.d.branch \in {"unicode", "alias_unicode"} THEN 1 ELSE 0),
            !.meta_hits = @ + (IF r.urlFrom = "meta" THEN 1 ELSE 0),
            !.remote_hits = @ + (IF r.urlFrom \in {"remote_meta", "probe"} THEN 1 ELSE 0),
            !.tag_hits = @ + (IF r.urlFrom = "ap_tag" THEN 1 ELSE 0),
            !.custom_without_url =
                @ + (IF r.d.branch = "custom" /\ r.urlFrom = "none" THEN 1 ELSE 0)]

-----------------------------------------------------------------------------
(* The request's parameters and the handler's locals: home.ts 403-468 *)

\* timeLeft() of a request without budget
Infinity == 1000000000

\* home.ts 405-407: a cookie that is absent or empty is the empty string here
Cookies(token, inst) == [ap_token |-> token, ap_inst |-> inst]
BothCookies == Cookies(<<"t">>, <<"m">>)
NoCookies == Cookies(<<>>, <<>>)

\* home.ts 409: !(!apToken || !apInst)
MutLoggedInWithToken == ~Falsy(cookies.ap_token)
loggedIn == ~Falsy(cookies.ap_token) /\ ~Falsy(cookies.ap_inst)

\* home.ts 416-426 for a URL without query parameters
RequestDefaults ==
    /\ cookies = BothCookies
    /\ forceAllReactions = FALSE
    /\ prefetchMeta = TRUE
    /\ budgetMs = 0
    /\ merge = TRUE
    /\ mergeLimit = GateLimit
    /\ debug = FALSE

\* a Link header: its link-values in order, each with the max_id parameter of
\* its URL (empty when the URL has none) and its rel
LinkValue(maxId, rel) == [maxId |-> maxId, rel |-> rel]
NoLink == <<>>

\* decodeURIComponent of a parameter value: %39 is the escape of 9
decodeURIComponent(v) == [i \in 1..Len(v) |-> IF v[i] = "%39" THEN "9" ELSE v[i]]

\* home.ts 25-29: the max_id of the first link-value with rel="next" that
\* has one, or null
RECURSIVE parseLinkForNextMaxId(_)
parseLinkForNextMaxId(link) ==
    IF link = <<>> THEN <<>>
    ELSE IF Head(link).rel = "next" /\ Head(link).maxId # <<>>
    THEN decodeURIComponent(Head(link).maxId)
    ELSE parseLinkForNextMaxId(Tail(link))

\* home.ts 451-453
NextMaxId(link, sts) ==
    IF parseLinkForNextMaxId(link) # <<>> THEN parseLinkForNextMaxId(link)
    ELSE IF sts # <<>> THEN sts[Len(sts)].id
    ELSE <<>>

\* no call of fetchRetry under way
NoFetch ==
    [op |-> "", pc |-> "idle", retries |-> 0, backoffMs |-> 0, attempt |-> 0,
     seen |-> <<>>, waited |-> <<>>, result |-> 0]

NoResponse == [status |-> 0, items |-> <<>>, next_max_id |-> <<>>, error |-> ""]

\* the handler at position at, with nothing answered and no prefetch running
HandlerIdle(at) ==
    /\ now = 0
    /\ hardStart = 0
    /\ hpc = at
    /\ response = NoResponse
    /\ pf = <<>>
    /\ pfUntil = 0
    /\ next_max_id = <<>>
    /\ triedCount = 0
    /\ mergedCount = 0
    /\ errorCount = 0
    /\ counters = NoCounters

\* home.ts 430-431
timeLeft == IF budgetMs # 0 THEN Max(0, budgetMs - (now - hardStart)) ELSE Infinity
MutBudgetZeroIsExhausted == timeLeft <= 0 \/ budgetMs = 0
budgetExpired == timeLeft <= 0

\* what a Job body did
NoInfo == [log |-> <<>>, started |-> FALSE, tried |-> FALSE, errored |-> FALSE,
           merged |-> FALSE, startLeft |-> 0, fallbackLeft |-> 0, timeout |-> 0]

-----------------------------------------------------------------------------
(* limiter: home.ts 148-167 *)

\* `if (active >= concurrency) await new Promise(r => queue.push(r))`
MutGateFullOffByOne(a, c) == a > c
GateFull(a, c) == a >= c

\* run(task), up to the first suspension: either the caller parks in the queue,
\* or active++ and the task body starts synchronously.
LimiterEnter(j) ==
    IF GateFull(active, concurrency)
    THEN /\ queue' = Append(queue, j)
         /\ jpc' = [jpc EXCEPT ![j] = "waiting"]
         /\ UNCHANGED <<active, maxInFlight, resuming>>
    ELSE /\ active' = active + 1
         /\ jpc' = [jpc EXCEPT ![j] = "running"]
         /\ maxInFlight' = Max(maxInFlight, Cardinality(InFlight) + 1)
         /\ UNCHANGED <<queue, resuming>>

\* queue.shift(): the waiter taken and the queue that is left
MutQueuePop(q) == [fn |-> q[Len(q)], rest |-> SubSeq(q, 1, Len(q) - 1)]
QueueShift(q) == [fn |-> Head(q), rest |-> Tail(q)]

\* next(): active--, then resolve the first waiter, whose continuation runs later
LimiterNext(j, end) ==
    /\ active' = active - 1
    /\ IF queue # <<>>
       THEN /\ queue' = QueueShift(queue).rest
            /\ resuming' = Append(resuming, QueueShift(queue).fn)
            /\ jpc' = [jpc EXCEPT ![j] = end, ![QueueShift(queue).fn] = "woken"]
       ELSE /\ queue' = queue
            /\ resuming' = resuming
            /\ jpc' = [jpc EXCEPT ![j] = end]

\* a woken waiter is past its await: active++ and the task body starts; the
\* continuations of resolved promises run in the order of the resolutions
LimiterResume(j) ==
    /\ resuming # <<>>
    /\ Head(resuming) = j
    /\ resuming' = Tail(resuming)
    /\ active' = active + 1
    /\ jpc' = [jpc EXCEPT ![j] = "running"]
    /\ maxInFlight' = Max(maxInFlight, Cardinality(InFlight) + 1)
    /\ UNCHANGED queue

\* jobs.map((job) => run(...)): the calls of run() happen one after the other in
\* one synchronous turn, so nothing else runs until the last Job is submitted.
GateSubmit ==
    /\ submitted < Len(jobs)
    /\ submitted' = submitted + 1
    /\ LimiterEnter(submitted + 1)
    /\ UNCHANGED <<concurrency, jobs>>
    /\ UNCHANGED <<reqVars, handlerVars, countVars, statuses, cacheVars, worldVars, fr, lk,
                   bodyVars>>

\* a woken waiter resumes after its await: active++ and the task body starts
GateWake(j) ==
    /\ submitted = Len(jobs)
    /\ jpc[j] = "woken"
    /\ LimiterResume(j)
    /\ UNCHANGED <<concurrency, jobs, submitted>>
    /\ UNCHANGED <<reqVars, handlerVars, countVars, statuses, cacheVars, worldVars, fr, lk,
                   bodyVars>>

\* the task's promise settles (fulfilled): finally { next() }
GateTaskReturn(j) ==
    /\ submitted = Len(jobs)
    /\ jpc[j] = "running"
    /\ LimiterNext(j, "done")
    /\ UNCHANGED <<concurrency, jobs, submitted, maxInFlight>>
    /\ UNCHANGED <<reqVars, handlerVars, countVars, statuses, cacheVars, worldVars, fr, lk,
                   bodyVars>>

\* the task's promise settles (rejected): finally { next() }, then run() rejects
MutTaskThrowKeepsSlot(j) ==
    /\ submitted = Len(jobs)
    /\ jpc[j] = "running"
    /\ jpc' = [jpc EXCEPT ![j] = "threw"]
    /\ UNCHANGED <<active, queue, resuming>>
    /\ UNCHANGED <<concurrency, jobs, submitted, maxInFlight>>
    /\ UNCHANGED <<reqVars, handlerVars, countVars, statuses, cacheVars, worldVars, fr, lk,
                   bodyVars>>
GateTaskThrow(j) ==
    /\ submitted = Len(jobs)
    /\ jpc[j] = "running"
    /\ LimiterNext(j, "threw")
    /\ UNCHANGED <<concurrency, jobs, submitted, maxInFlight>>
    /\ UNCHANGED <<reqVars, handlerVars, countVars, statuses, cacheVars, worldVars, fr, lk,
                   bodyVars>>

InitGate ==
    /\ concurrency \in 1..GateLimit
    /\ \E m \in 1..MaxGateJobs :
          /\ jobs = [i \in 1..m |-> i]
          /\ jpc = [i \in 1..m |-> "new"]
    /\ active = 0
    /\ queue = <<>>
    /\ resuming = <<>>
    /\ submitted = 0
    /\ maxInFlight = 0
    /\ RequestDefaults
    /\ HandlerIdle("await")
    /\ fr = NoFetch
    /\ lk = <<>>
    /\ statuses = <<>>
    /\ metaMem = <<>>
    /\ kv = <<>>
    /\ netLog = <<>>
    /\ timeline = <<>>
    /\ originMeta = <<>>
    /\ linkHeader = NoLink
    /\ step = <<>>
    /\ jinfo = <<>>
    /\ obj = <<>>
    /\ rxMeta = <<>>
    /\ rxI = <<>>
    /\ out = <<>>
    /\ lastRx = NoRx

NextGate ==
    \/ GateSubmit
    \/ \E j \in JobIds : GateWake(j)
    \/ \E j \in JobIds : GateTaskReturn(j)
    \/ \E j \in JobIds : GateTaskThrow(j)

SpecGate == InitGate /\ [][NextGate]_vars

\* the Jobs a batch of this model can have
GateJobs == 1..MaxGateJobs

\* jobs.map(...) runs to its end in one synchronous turn; the continuation of
\* a resolved waiter is a microtask and is run; every task settles, fulfilled
\* or rejected, which is the premise "every Job body terminates"
GateFairness ==
    /\ WF_vars(GateSubmit)
    /\ \A j \in GateJobs : WF_vars(j \in JobIds /\ GateWake(j))
    /\ \A j \in GateJobs : WF_vars(j \in JobIds /\ (GateTaskReturn(j) \/ GateTaskThrow(j)))

SpecGateLive == InitGate /\ [][NextGate]_vars /\ GateFairness

-----------------------------------------------------------------------------
(* The reaction loop of a Job as actions: home.ts 562-723 *)

\* the hosts of the model: the origin host of the Job and an alternate host
OriginHost == <<"o">>
AltHost == <<"r">>

\* kvUp: the durable tier answers its get and put calls
Env == [mem |-> metaMem, kv |-> kv, log |-> netLog, kvUp |-> TRUE]

\* the environment of a turn during which the durable tier rejects its calls
EnvKvDown == [Env EXCEPT !.kvUp = FALSE]

\* the outcomes the world may give one turn of the loop: the remote /api/meta
\* call, and the first public path that serves an image (the first one, the
\* last one, or none)
Oracles == [meta : {"ok", "notok", "throw"}, win : {0, 1, Len(ProbePaths)}]

\* home.ts 562, as the loop is entered
MutMetaForJobWhatever(host) == MapGet(metaMem, host, NoMeta)
MetaForJob(host) ==
    IF prefetchMeta THEN MapGet(metaMem, host, NoMeta) ELSE NoMeta

\* the effect of one turn whose result is r
RxApply(j, rawKey, raw, r) ==
    /\ out' = [out EXCEPT ![j] = IF r.emit THEN Append(@, r.d) ELSE @]
    /\ counters' = Counted(counters, r,
                           resolveAliasFromMeta(rxMeta[j], normalizeName(rawKey)) # NoAlias)
    /\ metaMem' = r.env.mem
    /\ kv' = r.env.kv
    /\ netLog' = r.env.log
    /\ lastRx' = [job |-> j, key |-> rawKey, raw |-> raw, emit |-> r.emit,
                  d |-> r.d, urlFrom |-> r.urlFrom]

RxTurn(j, entry, oracle) ==
    RxApply(j, entry[1], entry[2],
            ResolveKey(Env, entry[1], entry[2], rxMeta[j], obj[j].tag,
                       forceAllReactions, jobs[j].host, oracle, originMeta))

\* one turn of `for (const rawKey of Object.keys(reactions))`
RxStep(j) ==
    /\ jpc[j] = "running"
    /\ step[j] = "parse"
    /\ rxI[j] <= Len(obj[j].reactions)
    /\ \E oracle \in Oracles : RxTurn(j, obj[j].reactions[rxI[j]], oracle)
    /\ rxI' = [rxI EXCEPT ![j] = @ + 1]
    /\ UNCHANGED <<gateVars, reqVars, handlerVars, triedCount, mergedCount, errorCount,
                   statuses, worldVars, fr, lk, step, jinfo, obj, rxMeta>>

\* home.ts 707-723: attach the list to the post; an empty list attaches nothing
MutStageAfterParseOk(st, list) ==
    IF ~debug THEN st._mkDebug
    ELSE IF list = <<>> THEN "empty_after_parse" ELSE "ok"
StageAfterParse(st, list) ==
    IF ~debug THEN st._mkDebug
    ELSE IF list = <<>> THEN "empty_after_parse"
    ELSE IF st._mkDebug # "" THEN st._mkDebug ELSE "ok"

MutAttachedDropsUri(st, list, host) == [st EXCEPT !.uri = <<>>]
Attached(st, list, host) ==
    IF list # <<>>
    THEN [st EXCEPT !._mkReactions = [set |-> TRUE, list |-> list],
                    !._mkHost = [set |-> TRUE, val |-> toLowerCase(host)],
                    !._mkDebug = StageAfterParse(st, list)]
    ELSE [st EXCEPT !._mkDebug = StageAfterParse(st, list)]

\* home.ts 707-710: mergedCount++ goes with the attachment
MutMergedWhateverList(n, list) == n + 1
Merged(n, list) == IF list # <<>> THEN n + 1 ELSE n

\* the loop is over: attach, and the Job body returns
RxFinish(j) ==
    /\ jpc[j] = "running"
    /\ step[j] = "parse"
    /\ rxI[j] > Len(obj[j].reactions)
    /\ statuses' = [statuses EXCEPT ![jobs[j].st] = Attached(@, out[j], jobs[j].host)]
    /\ mergedCount' = Merged(mergedCount, out[j])
    /\ jinfo' = [jinfo EXCEPT ![j].merged = out[j] # <<>>]
    /\ step' = [step EXCEPT ![j] = "end"]
    /\ LimiterNext(j, "done")
    /\ UNCHANGED <<concurrency, jobs, submitted, maxInFlight, reqVars, handlerVars,
                   triedCount, errorCount, counters, cacheVars, worldVars, fr, lk, obj, rxMeta,
                   rxI,
                   out, lastRx>>

-----------------------------------------------------------------------------
(* SpecRx: the reaction loop of one Job over every small origin note and
   every small host metadata *)

\* the largest number of keys of a reaction map
MaxKeys == 2

UrlA == <<"https://", "m", "/a.png">>
UrlB == <<"https://", "m", "/b.png">>
UrlC == <<"https://", "r", "/c.png">>
UrlT == <<"https://", "o", "/t.png">>

Emoji(name, url) == [name |-> name, url |-> url]

\* the origin host's metadata in the process tier: one name with a glyph
\* alias and a custom alias that names an alternate host; two names that
\* differ only in hyphen versus underscore
MetaOne ==
    [emojis |-> <<Emoji(<<"a", "-", "b">>, UrlA)>>,
     reactionEmojis |-> << << <<"k">>, <<"heart">> >>,
                           << <<"c", "_", "d">>, <<":", "b", "@", "r", ":">> >> >>]
MetaTwo ==
    [emojis |-> <<Emoji(<<"a", "-", "b">>, UrlA), Emoji(<<"a", "_", "b">>, UrlB)>>,
     reactionEmojis |-> <<>>]
\* the two names of MetaTwo in the other order, and an emoji named by a glyph
MetaSwap ==
    [emojis |-> <<Emoji(<<"a", "_", "b">>, UrlB), Emoji(<<"a", "-", "b">>, UrlA),
                  Emoji(<<"heart">>, UrlT)>>,
     reactionEmojis |-> <<>>]
\* an alias table whose key is a glyph, and a glyph alias for a name that the
\* note's reactions spell with colons
MetaGlyph ==
    [emojis |-> <<>>,
     reactionEmojis |-> << << <<"heart">>, <<"star">> >>,
                           << <<"z">>, <<" ", "star">> >> >>]

MemOf(raw) == MapSet(<<>>, OriginHost, buildMetaIndex(raw))

\* the request's mk_prefetch with the process tier it finds
RxConfigs ==
    { [prefetch |-> TRUE, mem |-> <<>>],
      [prefetch |-> TRUE, mem |-> MemOf(MetaOne)],
      [prefetch |-> TRUE, mem |-> MemOf(MetaTwo)],
      [prefetch |-> TRUE, mem |-> MemOf(MetaSwap)],
      [prefetch |-> TRUE, mem |-> MemOf(MetaGlyph)],
      [prefetch |-> FALSE, mem |-> MemOf(MetaOne)] }

\* what the alternate host's /api/meta answers
RxRemoteMeta ==
    [emojis |-> <<Emoji(<<"b">>, UrlC), Emoji(<<"a", "_", "b">>, UrlB),
                  Emoji(<<"a", "-", "b">>, UrlA)>>,
     reactionEmojis |-> <<>>]

\* the Emoji tags of the origin note
RxTags == <<[type |-> "Emoji", name |-> <<":", "z", ":">>, url |-> UrlT]>>

\* the raw keys of the model: a glyph; a custom key and its other spelling; a
\* key without colons; the key of a glyph alias; the key of a custom alias in
\* its other spelling; a custom key only the note's tags know; a custom key
\* that names an alternate host; a custom key that names an alternate host
\* whose metadata does not know it, while the note's tags do; a custom key
\* that names an alternate host whose metadata knows both of its spellings
RawKeys ==
    << <<"heart">>,
       <<":", "a", "-", "b", ":">>,
       <<":", "A", "_", "b", ":">>,
       <<"a", "_", "b">>,
       <<"k">>,
       <<":", "c", "-", "d", ":">>,
       <<":", "z", ":">>,
       <<":", "b", "@", "R", ":">>,
       <<":", "z", "@", "r", ":">>,
       <<":", "a", "_", "b", "@", "r", ":">> >>

RawCounts == { <<>>, <<0>>, <<2>> }

\* reaction maps of at most n keys, the keys in the order of RawKeys from
\* position from on
RECURSIVE ReactionMaps(_, _)
ReactionMaps(n, from) ==
    IF n = 0 \/ from > Len(RawKeys) THEN { <<>> }
    ELSE ReactionMaps(n, from + 1) \cup
         { <<<<RawKeys[from], c>>>> \o m : c \in RawCounts, m \in ReactionMaps(n - 1, from + 1) }

Note(reactions, tag) ==
    [present |-> TRUE, hasReactions |-> TRUE, reactions |-> reactions, tag |-> tag]

NoUri == <<>>
NoteUri(host, id) == <<"https://">> \o host \o <<"/notes/">> \o id

Post(uri, reblogUri) ==
    [id |-> <<"1">>, uri |-> uri, reblogUri |-> reblogUri,
     _mkReactions |-> [set |-> FALSE, list |-> <<>>],
     _mkHost |-> [set |-> FALSE, val |-> <<>>],
     _mkDebug |-> ""]

\* home.ts 479-485
Job(st, apUri) ==
    [st |-> st, apUri |-> apUri, host |-> UrlHost(apUri),
     noteId |-> extractMisskeyNoteIdFromApUri(apUri)]

InitRx ==
    /\ concurrency = GateLimit
    /\ active = 1
    /\ queue = <<>>
    /\ resuming = <<>>
    /\ statuses = <<Post(NoteUri(OriginHost, <<"n1">>), NoUri)>>
    /\ jobs = <<Job(1, NoteUri(OriginHost, <<"n1">>))>>
    /\ submitted = 1
    /\ jpc = <<"running">>
    /\ maxInFlight = 1
    /\ cookies = BothCookies
    /\ budgetMs = 0
    /\ merge = TRUE
    /\ mergeLimit = GateLimit
    /\ debug = FALSE
    /\ HandlerIdle("await")
    /\ fr = NoFetch
    /\ lk = <<>>
    /\ forceAllReactions \in BOOLEAN
    /\ \E c \in RxConfigs :
          /\ prefetchMeta = c.prefetch
          /\ metaMem = c.mem
    /\ kv = <<>>
    /\ netLog = <<>>
    /\ timeline = statuses
    /\ originMeta = MapSet(<<>>, AltHost, RxRemoteMeta)
    /\ linkHeader = NoLink
    /\ step = <<"parse">>
    /\ jinfo = <<[NoInfo EXCEPT !.started = TRUE, !.tried = TRUE]>>
    /\ \E m \in ReactionMaps(MaxKeys, 1) : obj = <<Note(m, RxTags)>>
    /\ rxMeta = <<MetaForJob(OriginHost)>>
    /\ rxI = <<1>>
    /\ out = << <<>> >>
    /\ lastRx = NoRx

NextRx ==
    \/ \E j \in JobIds : RxStep(j)
    \/ \E j \in JobIds : RxFinish(j)

SpecRx == InitRx /\ [][NextRx]_vars

-----------------------------------------------------------------------------
(* SpecKvDown: the reaction loop of one Job while the durable tier may reject
   the calls of a turn *)

\* home.ts 725-728, reached from the loop: what the turn threw was not held
\* by the try of its key
RxEscaped(j) ==
    /\ errorCount' = errorCount + 1
    /\ jinfo' = [jinfo EXCEPT ![j].errored = TRUE]
    /\ statuses' = [statuses EXCEPT ![jobs[j].st]._mkDebug = IF debug THEN "error" ELSE @]
    /\ step' = [step EXCEPT ![j] = "end"]
    /\ LimiterNext(j, "done")
    /\ UNCHANGED <<rxI, out, counters, cacheVars, lastRx>>

\* home.ts 576-705: the turn whose result is r; the Job's record keeps the
\* keys whose turn ended in the catch of home.ts 701
RxKvDownTurn(j, entry, r) ==
    IF r.urlFrom = "threw" THEN RxEscaped(j)
    ELSE /\ RxApply(j, entry[1], entry[2], r)
         /\ rxI' = [rxI EXCEPT ![j] = @ + 1]
         /\ jinfo' = [jinfo EXCEPT ![j].log =
                          IF r.urlFrom = "key_error" THEN Append(@, "key_error") ELSE @]
         /\ UNCHANGED <<active, queue, resuming, jpc, step, statuses, errorCount>>

\* one turn of the loop during which FEDIOAUTH_KV rejects get and put
RxStepKvDown(j) ==
    /\ jpc[j] = "running"
    /\ step[j] = "parse"
    /\ rxI[j] <= Len(obj[j].reactions)
    /\ \E oracle \in Oracles :
          RxKvDownTurn(j, obj[j].reactions[rxI[j]],
                       ResolveKey(EnvKvDown, obj[j].reactions[rxI[j]][1],
                                  obj[j].reactions[rxI[j]][2], rxMeta[j], obj[j].tag,
                                  forceAllReactions, jobs[j].host, oracle, originMeta))
    /\ UNCHANGED <<concurrency, jobs, submitted, maxInFlight, reqVars, handlerVars,
                   triedCount, mergedCount, worldVars, fr, lk, obj, rxMeta>>

NextKvDown ==
    \/ \E j \in JobIds : RxStep(j)
    \/ \E j \in JobIds : RxStepKvDown(j)
    \/ \E j \in JobIds : RxFinish(j)

SpecKvDown == InitRx /\ [][NextKvDown]_vars

-----------------------------------------------------------------------------
(* SpecTwice: two Jobs of one page whose posts boost the same origin note, so
   that every raw key is resolved twice against the same caches *)

\* the reaction maps of one key
OneKeyMaps == { << <<RawKeys[i], c>> >> : i \in 1..Len(RawKeys), c \in RawCounts }

InitTwice ==
    /\ concurrency = GateLimit
    /\ active = 2
    /\ queue = <<>>
    /\ resuming = <<>>
    /\ statuses = <<Post(NoUri, NoteUri(OriginHost, <<"n1">>)),
                    Post(NoUri, NoteUri(OriginHost, <<"n1">>))>>
    /\ jobs = <<Job(1, NoteUri(OriginHost, <<"n1">>)), Job(2, NoteUri(OriginHost, <<"n1">>))>>
    /\ submitted = 2
    /\ jpc = <<"running", "running">>
    /\ maxInFlight = 2
    /\ cookies = BothCookies
    /\ budgetMs = 0
    /\ merge = TRUE
    /\ mergeLimit = GateLimit
    /\ debug = FALSE
    /\ HandlerIdle("await")
    /\ fr = NoFetch
    /\ lk = <<>>
    /\ forceAllReactions \in BOOLEAN
    /\ \E c \in RxConfigs :
          /\ prefetchMeta = c.prefetch
          /\ metaMem = c.mem
    /\ kv = <<>>
    /\ netLog = <<>>
    /\ timeline = statuses
    /\ originMeta = MapSet(<<>>, AltHost, RxRemoteMeta)
    /\ linkHeader = NoLink
    /\ step = <<"parse", "parse">>
    /\ jinfo = <<[NoInfo EXCEPT !.started = TRUE, !.tried = TRUE],
                 [NoInfo EXCEPT !.started = TRUE, !.tried = TRUE]>>
    /\ \E m \in OneKeyMaps : obj = <<Note(m, RxTags), Note(m, RxTags)>>
    /\ rxMeta = <<MetaForJob(OriginHost), MetaForJob(OriginHost)>>
    /\ rxI = <<1, 1>>
    /\ out = << <<>>, <<>> >>
    /\ lastRx = NoRx

SpecTwice == InitTwice /\ [][NextRx]_vars

-----------------------------------------------------------------------------
(* SpecProbe: probeEmojiUrl called on its own, again and again, while the
   entries of the durable tier expire *)

\* no probe that misses the durable tier starts once the log holds more calls
\* than this
MaxProbeLog == 6

\* the hosts and names probed, in more than one spelling
ProbeHosts == { <<"r">>, <<" ", "R">> }
ProbeNames == { <<"b">>, <<"z">> }

\* the outcomes of the public paths: none serves an image, the first does, the
\* last does
ProbeWins == {0, 1, Len(ProbePaths)}

InitProbe ==
    /\ concurrency = GateLimit
    /\ jobs = <<>>
    /\ jpc = <<>>
    /\ active = 0
    /\ queue = <<>>
    /\ resuming = <<>>
    /\ submitted = 0
    /\ maxInFlight = 0
    /\ RequestDefaults
    /\ HandlerIdle("await")
    /\ fr = NoFetch
    /\ lk = <<>>
    /\ statuses = <<>>
    /\ metaMem = <<>>
    /\ kv = <<>>
    /\ netLog = <<>>
    /\ timeline = <<>>
    /\ originMeta = <<>>
    /\ linkHeader = NoLink
    /\ step = <<>>
    /\ jinfo = <<>>
    /\ obj = <<>>
    /\ rxMeta = <<>>
    /\ rxI = <<>>
    /\ out = <<>>
    /\ lastRx = NoRx

\* the probe of key returned r
ProbeApply(key, r) ==
    /\ metaMem' = r.env.mem
    /\ kv' = r.env.kv
    /\ netLog' = r.env.log
    /\ lastRx' = [NoRx EXCEPT !.key = key,
                              !.d = [NoDescriptor EXCEPT !.url = r.val],
                              !.urlFrom = IF Falsy(r.val) THEN "none" ELSE "probe"]

\* await probeEmojiUrl(env, host, name)
ProbeCall(host, name, win) ==
    /\ \/ Len(netLog) <= MaxProbeLog
       \/ KvHas(Env, emojiUrlCacheKey(toLowerCase(trim(host)), toLowerCase(trim(name))))
    /\ ProbeApply(emojiUrlCacheKey(toLowerCase(trim(host)), toLowerCase(trim(name))),
                  probeEmojiUrl(Env, host, name, win))
    /\ UNCHANGED <<gateVars, reqVars, handlerVars, countVars, statuses, worldVars, fr, lk,
                   step, jinfo, obj, rxMeta, rxI, out>>

\* the seconds until the next entry of the durable tier expires
NextExpiry == CHOOSE d \in {kv[k].ttl : k \in DOMAIN kv} : \A k \in DOMAIN kv : d <= kv[k].ttl

\* the model follows the durable tier for two lifetimes of a positive entry
ProbeHorizon == 2 * ProbeTtl

\* time passes until the next entry of the durable tier expires
Expire ==
    /\ DOMAIN kv # {}
    /\ now + 1000 * NextExpiry <= 1000 * ProbeHorizon
    /\ kv' = KvAged(kv, NextExpiry)
    /\ now' = now + 1000 * NextExpiry
    /\ UNCHANGED <<gateVars, reqVars, hardStart, hpc, response, pf, pfUntil, next_max_id, countVars,
                   statuses, metaMem, netLog, worldVars, fr, lk, bodyVars>>

NextProbe ==
    \/ \E host \in ProbeHosts, name \in ProbeNames, win \in ProbeWins :
          ProbeCall(host, name, win)
    \/ Expire

SpecProbe == InitProbe /\ [][NextProbe]_vars

-----------------------------------------------------------------------------
(* SpecMeta: getMisskeyMeta called on its own, again and again, while the
   process starts anew and the entries of the durable tier expire *)

\* no lookup that misses both tiers starts once the origin was fetched this
\* many times
MaxMetaFetches == 2

\* the key of the durable tier for a host's metadata: home.ts 331
MetaKey(host) == <<"mkmeta:">> \o host

\* the spellings of the host a lookup is made for
MetaHosts == { <<"r">>, <<" ", "R">>, <<"o">> }

\* what the two tiers hold at first: metadata the process cached earlier,
\* and a text another process stored, or one that does not parse
MemsBefore == { <<>>, MapSet(<<>>, AltHost, buildMetaIndex(MetaOne)) }
MetaKvsBefore ==
    { <<>>,
      MapSet(<<>>, MetaKey(AltHost), [text |-> JsonObject(RxRemoteMeta), ttl |-> MetaTtl]),
      MapSet(<<>>, MetaKey(AltHost),
             [text |-> [t |-> "corrupt", v |-> EmptyRawMeta], ttl |-> MetaTtl]) }

InitMeta ==
    /\ concurrency = GateLimit
    /\ jobs = <<>>
    /\ jpc = <<>>
    /\ active = 0
    /\ queue = <<>>
    /\ resuming = <<>>
    /\ submitted = 0
    /\ maxInFlight = 0
    /\ RequestDefaults
    /\ HandlerIdle("await")
    /\ fr = NoFetch
    /\ lk = <<>>
    /\ statuses = <<>>
    /\ metaMem \in MemsBefore
    /\ kv \in MetaKvsBefore
    /\ netLog = <<>>
    /\ timeline = <<>>
    /\ originMeta = MapSet(MapSet(<<>>, OriginHost, MetaOne), AltHost, MetaTwo)
    /\ linkHeader = NoLink
    /\ step = <<>>
    /\ jinfo = <<>>
    /\ obj = <<>>
    /\ rxMeta = <<>>
    /\ rxI = <<>>
    /\ out = <<>>
    /\ lastRx = NoRx

\* the lookup of key returned r
MetaApply(key, r) ==
    /\ metaMem' = r.env.mem
    /\ kv' = r.env.kv
    /\ netLog' = r.env.log
    /\ lastRx' = [NoRx EXCEPT !.key = key]

\* await getMisskeyMeta(env, host)
MetaCall(host, outcome) ==
    /\ \/ Len(netLog) < MaxMetaFetches
       \/ normalizeHost(host) \in DOMAIN metaMem
       \/ /\ KvHas(Env, MetaKey(normalizeHost(host)))
          /\ JsonParses(kv[MetaKey(normalizeHost(host))].text)
    /\ MetaApply(MetaKey(normalizeHost(host)),
                 getMisskeyMeta(Env, host, outcome, MapGet(originMeta, normalizeHost(host), EmptyRawMeta)))
    /\ UNCHANGED <<gateVars, reqVars, handlerVars, countVars, statuses, worldVars, fr, lk,
                   step, jinfo, obj, rxMeta, rxI, out>>

\* a cold start: the process tier is empty again (home.ts 170)
ColdStart ==
    /\ metaMem # <<>>
    /\ metaMem' = <<>>
    /\ UNCHANGED <<gateVars, reqVars, handlerVars, countVars, statuses, kv, netLog,
                   worldVars, fr, lk, bodyVars>>

NextMeta ==
    \/ \E host \in MetaHosts, outcome \in {"ok", "notok", "throw"} : MetaCall(host, outcome)
    \/ ColdStart
    \/ Expire

SpecMeta == InitMeta /\ [][NextMeta]_vars

-----------------------------------------------------------------------------
(* SpecRace: calls of getMisskeyMeta by requests the same worker serves
   together, each call taken apart at its awaits (home.ts 332, 342, 355),
   while the origin's answer changes, the durable tier expires and the worker
   starts anew *)

\* the number of calls under way together, and the number of origin fetches
\* after which no call that may fetch starts
MaxLookups == 2
MaxRaceFetches == 2

\* a call that has not started
NoLookup == [host |-> <<>>, pc |-> "idle", raw |-> EmptyRawMeta, held |-> NoMeta,
             ret |-> NoMeta, threw |-> FALSE]

\* the answers the alternate host's /api/meta gives over time
RaceVersions == {MetaTwo, RxRemoteMeta}

\* home.ts 336-337 and 353-354: const withIndex = buildMetaIndex(...), built
\* in one piece before metaMem.set(host, withIndex)
MutLoadedBeforeIndexed(raw) ==
    [buildMetaIndex(raw) EXCEPT !._emojiByName = <<>>, !._aliasByKey = <<>>]
LoadedIndex(raw) == buildMetaIndex(raw)

\* the slots a call may take: one that is free, or the next new one
LookupSlots ==
    { i \in 1..Len(lk) : lk[i].pc = "done" }
        \cup (IF Len(lk) < MaxLookups THEN {Len(lk) + 1} ELSE {})

LookupPut(i, rec) ==
    lk' = IF i > Len(lk) THEN Append(lk, rec) ELSE [lk EXCEPT ![i] = rec]

\* the calls that may still fetch the origin
MayFetch == { i \in 1..Len(lk) : lk[i].pc = "kvget" }

raceFrame == <<gateVars, reqVars, handlerVars, countVars, statuses, timeline, linkHeader,
               fr, bodyVars>>

\* home.ts 332-334: KV.get gave a text, and it parses
MetaCached(host) == KvHas(Env, MetaKey(host)) /\ JsonParses(kv[MetaKey(host)].text)

\* home.ts 328-332: the call starts; a process-tier hit returns at once, a
\* miss awaits KV.get
LookupStart(i, host) ==
    /\ i \in LookupSlots
    /\ \/ normalizeHost(host) \in DOMAIN metaMem
       \/ Len(netLog) + Cardinality(MayFetch) < MaxRaceFetches
    /\ LookupPut(i, IF normalizeHost(host) \in DOMAIN metaMem
                    THEN [NoLookup EXCEPT !.host = normalizeHost(host), !.pc = "done",
                                          !.ret = metaMem[normalizeHost(host)]]
                    ELSE [NoLookup EXCEPT !.host = normalizeHost(host), !.pc = "kvget"])
    /\ UNCHANGED <<raceFrame, cacheVars, originMeta>>

\* home.ts 332-350: KV.get answered; a text that parses is indexed, stored in
\* the process tier and returned, otherwise the origin call goes out
LookupKvGot(i) ==
    /\ i \in DOMAIN lk
    /\ lk[i].pc = "kvget"
    /\ IF MetaCached(lk[i].host)
       THEN /\ metaMem' = MetaIndexed(Env, lk[i].host,
                                      LoadedIndex(kv[MetaKey(lk[i].host)].text.v)).env.mem
            /\ lk' = [lk EXCEPT ![i].pc = "done",
                                ![i].held = LoadedIndex(kv[MetaKey(lk[i].host)].text.v),
                                ![i].ret = LoadedIndex(kv[MetaKey(lk[i].host)].text.v)]
            /\ UNCHANGED netLog
       ELSE /\ netLog' = Append(netLog, Call("meta", lk[i].host, <<>>, 0))
            /\ lk' = [lk EXCEPT ![i].pc = "fetch"]
            /\ UNCHANGED metaMem
    /\ UNCHANGED <<raceFrame, kv, originMeta>>

\* home.ts 342-355: the origin answered, or did not; a success answer is
\* indexed and stored in the process tier, and the call awaits KV.put
LookupFetched(i, outcome) ==
    /\ i \in DOMAIN lk
    /\ lk[i].pc = "fetch"
    /\ IF outcome = "ok"
       THEN /\ metaMem' = MetaIndexed(Env, lk[i].host,
                                      LoadedIndex(MapGet(originMeta, lk[i].host,
                                                         EmptyRawMeta))).env.mem
            /\ lk' = [lk EXCEPT ![i].pc = "kvput",
                                ![i].raw = MapGet(originMeta, lk[i].host, EmptyRawMeta),
                                ![i].held = LoadedIndex(MapGet(originMeta, lk[i].host,
                                                               EmptyRawMeta))]
       ELSE /\ lk' = [lk EXCEPT ![i].pc = "done", ![i].threw = (outcome = "throw")]
            /\ UNCHANGED metaMem
    /\ UNCHANGED <<raceFrame, kv, netLog, originMeta>>

\* home.ts 355-357: KV.put answered, the call returns its index
LookupKvPut(i) ==
    /\ i \in DOMAIN lk
    /\ lk[i].pc = "kvput"
    /\ kv' = KvPut(Env, MetaKey(lk[i].host), JsonObject(lk[i].raw), MetaTtl).kv
    /\ lk' = [lk EXCEPT ![i].pc = "done", ![i].ret = lk[i].held]
    /\ UNCHANGED <<raceFrame, metaMem, netLog, originMeta>>

\* the alternate host changes what its /api/meta answers
OriginChanges ==
    /\ \E v \in RaceVersions \ {originMeta[AltHost]} :
          originMeta' = [originMeta EXCEPT ![AltHost] = v]
    /\ UNCHANGED <<raceFrame, cacheVars, lk>>

NextRace ==
    \/ \E i \in 1..MaxLookups, host \in MetaHosts : LookupStart(i, host)
    \/ \E i \in 1..MaxLookups : LookupKvGot(i)
    \/ \E i \in 1..MaxLookups, outcome \in {"ok", "notok", "throw"} : LookupFetched(i, outcome)
    \/ \E i \in 1..MaxLookups : LookupKvPut(i)
    \/ OriginChanges
    \/ ColdStart
    \/ Expire

SpecRace == InitMeta /\ [][NextRace]_vars

-----------------------------------------------------------------------------
(* SpecRetry: one call of fetchRetry, home.ts 95-146, for every small number
   of retries and every answer of the network to each attempt *)

\* the largest opts.retries
MaxRetries == 2

\* what an attempt may get: no response (0: the fetch was aborted by the
\* timer or the transport failed) or a response with this status
FetchAnswers == {0, 200, 404, 408, 429, 500, 599}

\* home.ts 109-119, the default retryOn; res is the status, 0 for null
MutRetryOnAlways(attempt, res, err) == TRUE
retryOn(attempt, res, err) ==
    \/ err
    \/ res = 0
    \/ (res >= 500 /\ res <= 599) \/ res = 429
    \/ res = 408

\* home.ts 106-108: the options as the loop uses them
FetchOpts(retries, backoffMs) ==
    [NoFetch EXCEPT !.pc = "try", !.retries = Max(0, retries), !.backoffMs = Max(0, backoffMs)]

\* home.ts 213-221, 342-350, 384-392: the options the three origin calls of
\* the enrichment hand to fetchRetry, { timeoutMs, retries: 0, backoffMs: 200 }
MutShowByUriRetriedOnce == [FetchOpts(1, 200) EXCEPT !.op = "ap/show"]
ApShowOpts == [FetchOpts(0, 200) EXCEPT !.op = "ap/show"]
MetaOpts == [FetchOpts(0, 200) EXCEPT !.op = "meta"]
NotesShowOpts == [FetchOpts(0, 200) EXCEPT !.op = "notes/show"]

InitRetry ==
    /\ concurrency = GateLimit
    /\ jobs = <<>>
    /\ jpc = <<>>
    /\ active = 0
    /\ queue = <<>>
    /\ resuming = <<>>
    /\ submitted = 0
    /\ maxInFlight = 0
    /\ RequestDefaults
    /\ HandlerIdle("await")
    /\ fr \in { FetchOpts(r, b) : r \in 0..MaxRetries, b \in {0, 200, 250} }
                \cup {ApShowOpts, MetaOpts, NotesShowOpts}
    /\ lk = <<>>
    /\ statuses = <<>>
    /\ metaMem = <<>>
    /\ kv = <<>>
    /\ netLog = <<>>
    /\ timeline = <<>>
    /\ originMeta = <<>>
    /\ linkHeader = NoLink
    /\ step = <<>>
    /\ jinfo = <<>>
    /\ obj = <<>>
    /\ rxMeta = <<>>
    /\ rxI = <<>>
    /\ out = <<>>
    /\ lastRx = NoRx

\* home.ts 124-138: where the loop goes after an attempt that got answer a
AfterAttempt(f, a) ==
    IF a # 0
    THEN IF ~retryOn(f.attempt, a, FALSE) \/ f.attempt = f.retries
         THEN [f EXCEPT !.pc = "returned", !.result = a]
         ELSE [f EXCEPT !.pc = "backoff"]
    ELSE IF ~retryOn(f.attempt, 0, TRUE) \/ f.attempt = f.retries
         THEN [f EXCEPT !.pc = "threw"]
         ELSE [f EXCEPT !.pc = "backoff"]

\* home.ts 123-138: one turn of the loop up to its return, throw or backoff
FetchAttempt(a) ==
    /\ fr.pc = "try"
    /\ fr.attempt <= fr.retries
    /\ netLog' = Append(netLog, Call("fetch", <<>>, <<>>, fr.attempt))
    /\ fr' = AfterAttempt([fr EXCEPT !.seen = Append(@, a)], a)
    /\ UNCHANGED <<gateVars, reqVars, handlerVars, countVars, statuses, metaMem, kv,
                   worldVars, lk, bodyVars>>

\* home.ts 140: const delay = backoffMs * Math.pow(2, attempt)
MutBackoffDelayConstant(backoffMs, attempt) == backoffMs
BackoffDelay(backoffMs, attempt) == backoffMs * (2 ^ attempt)

\* home.ts 139-141: sleep for the delay, then the next attempt
FetchBackoff ==
    /\ fr.pc = "backoff"
    /\ fr' = [fr EXCEPT !.pc = "try", !.attempt = @ + 1,
                        !.waited = Append(@, BackoffDelay(fr.backoffMs, fr.attempt))]
    /\ UNCHANGED <<gateVars, reqVars, handlerVars, countVars, statuses, cacheVars,
                   worldVars, lk, bodyVars>>

NextRetry ==
    \/ \E a \in FetchAnswers : FetchAttempt(a)
    \/ FetchBackoff

SpecRetry == InitRetry /\ [][NextRetry]_vars

-----------------------------------------------------------------------------
(* Spec: the page request, onRequestGet, home.ts 402-744 *)

\* the largest page of mixed posts, the clock's step in ms, the number of
\* steps the clock may take, and the positive budget of the model
MaxPosts == 1
TickMs == 400
MaxTicks == 2
BudgetMs == 500

\* ---- the origin notes and what the origin answers ----

NoObj == [present |-> FALSE, hasReactions |-> FALSE, reactions |-> <<>>, tag |-> <<>>]
\* an object without a reactions field: a note without reactions, or the
\* wrapper { object: note }
Bare == [present |-> TRUE, hasReactions |-> FALSE, reactions |-> <<>>, tag |-> <<>>]
NoteWithReactions ==
    Note(<< <<RawKeys[1], <<2>> >>, <<RawKeys[2], <<2>> >> >>, <<>>)
NoteAllZero == Note(<< <<RawKeys[1], <<0>> >> >>, <<>>)

\* a parsed JSON body: null, a note, or { object: note }
DataNull == [falsy |-> TRUE, object |-> NoObj, self |-> NoObj]
DataDirect(n) == [falsy |-> FALSE, object |-> NoObj, self |-> n]
DataWrapped(n) == [falsy |-> FALSE, object |-> n, self |-> Bare]

Answer(kind, data) == [kind |-> kind, data |-> data]

\* what /api/ap/show may answer: a body, a non-success status, a body that is
\* not JSON, or nothing in time (timeout, transport failure).  The note n0
\* exists on its origin and has no reactions.
ApAnswers(noteId) ==
    IF noteId = <<"n0">> THEN { Answer("ok", DataDirect(Bare)) }
    ELSE { Answer("ok", DataNull), Answer("ok", DataDirect(Bare)),
           Answer("ok", DataWrapped(NoteWithReactions)),
           Answer("notok", DataNull), Answer("badjson", DataNull),
           Answer("throw", DataNull) }

\* what /api/notes/show may answer
NotesAnswers(noteId) ==
    { Answer("ok", DataNull), Answer("ok", DataDirect(NoteWithReactions)),
      Answer("ok", DataDirect(NoteAllZero)),
      Answer("notok", DataNull), Answer("badjson", DataNull),
      Answer("throw", DataNull) }

\* home.ts 204-205 and 376: the keys of the durable tier
sha256Hex(text) == <<"sha256(">> \o text \o <<")">>
ApKey(job) == <<"mk:note:">> \o job.host \o <<":">> \o sha256Hex(job.apUri)
NotesKey(job) == <<"mk:note:byid:">> \o job.host \o <<":">> \o job.noteId

\* JSON.stringify(data) and JSON.parse(cached) of a note body
NoteJson(data) == IF data.falsy THEN JsonNull ELSE JsonObject(data)
NoteParsed(text) == IF text.t = "null" THEN DataNull ELSE text.v

\* ---- the timeline pages ----

\* a note on the origin host; a boost of a note on the alternate host; a post
\* of a server whose URIs have another shape; a post without URI; a post
\* whose URI starts like a URL and is not one
PostKinds ==
    { Post(NoteUri(OriginHost, <<"n1">>), NoUri),
      Post(<<"https://", "m", "/users/", "u">>, NoteUri(AltHost, <<"n2">>)),
      Post(<<"https://", "m", "/users/", "u">>, NoUri),
      Post(NoUri, NoUri),
      Post(<<"https://">>, NoUri) }

RECURSIVE PagesUpTo(_)
PagesUpTo(n) ==
    IF n = 0 THEN { <<>> }
    ELSE PagesUpTo(n - 1) \cup
         { Append(pg, st) : pg \in { q \in PagesUpTo(n - 1) : Len(q) = n - 1 },
                            st \in PostKinds }

\* a page with one candidate more than the gate admits, all the same note
FullPage == [i \in 1..(GateLimit + 1) |-> Post(NoteUri(OriginHost, <<"n0">>), NoUri)]

\* a page whose first post is no note of the origin platform, whose second
\* post is one, and whose third post boosts the note without reactions
MixedPage ==
    << [Post(<<"https://", "m", "/users/", "u">>, NoUri) EXCEPT !.id = <<"5">>],
       [Post(NoteUri(OriginHost, <<"n1">>), NoUri) EXCEPT !.id = <<"4">>],
       [Post(<<"https://", "m", "/users/", "u">>, NoteUri(OriginHost, <<"n0">>))
           EXCEPT !.id = <<"3">>] >>

\* a page with a note of the origin host and a boost of the same note
TwinPage ==
    << Post(NoteUri(OriginHost, <<"n1">>), NoUri),
       Post(<<"https://", "m", "/users/", "u">>, NoteUri(OriginHost, <<"n1">>)) >>

\* the Link headers of the timeline source: none, one with the previous page
\* only, and one with the previous and the next page
Links ==
    { NoLink,
      << LinkValue(<<"6">>, "prev") >>,
      << LinkValue(<<"6">>, "prev"), LinkValue(<<"%39">>, "next") >> }

\* ---- the requests ----

Request(li, pre, b, m, ml, d) ==
    [cookies |-> IF li THEN BothCookies ELSE NoCookies, prefetchMeta |-> pre, budgetMs |-> b, merge |-> m,
     mergeLimit |-> ml, debug |-> d]

Requests ==
    { Request(TRUE, pre, b, TRUE, GateLimit, FALSE) : pre \in BOOLEAN, b \in {0, BudgetMs} }
    \cup { Request(TRUE, TRUE, 0, TRUE, GateLimit, TRUE),
           Request(FALSE, TRUE, 0, TRUE, GateLimit, FALSE),
           Request(TRUE, TRUE, 0, FALSE, GateLimit, FALSE),
           Request(TRUE, TRUE, 0, TRUE, 1, FALSE) }
    \cup { [Request(FALSE, TRUE, 0, TRUE, GateLimit, FALSE) EXCEPT !.cookies = c] :
               c \in {Cookies(<<"t">>, <<>>), Cookies(<<>>, <<"m">>)} }

\* the requests served on the full page
FullPageRequests ==
    { Request(TRUE, FALSE, b, TRUE, ml, FALSE) :
          b \in {0, BudgetMs}, ml \in {GateLimit, GateLimit + 1} }

\* the requests served on the mixed page
MixedPageRequests ==
    { Request(TRUE, FALSE, 0, TRUE, ml, d) : ml \in {1, GateLimit}, d \in BOOLEAN }

\* the requests served on the page of the note and its boost
TwinPageRequests == { Request(TRUE, pre, 0, TRUE, GateLimit, FALSE) : pre \in BOOLEAN }

\* what the durable tier holds of the notes when the request arrives:
\* nothing, the answer of an earlier show-by-URI, or a null answer of
\* show-by-URI with the answer of the show-by-id that followed it
CachedNote(key, data) == MapSet(<<>>, key, [text |-> NoteJson(data), ttl |-> NoteTtl])
KvsBefore ==
    { <<>>,
      CachedNote(ApKey(Job(1, NoteUri(OriginHost, <<"n1">>))), DataWrapped(NoteWithReactions)),
      MapSet(CachedNote(ApKey(Job(1, NoteUri(OriginHost, <<"n1">>))), DataNull),
             NotesKey(Job(1, NoteUri(OriginHost, <<"n1">>))),
             [text |-> NoteJson(DataDirect(NoteAllZero)), ttl |-> NoteTtl]) }

Scenarios ==
    { [req |-> r, page |-> pg, kv |-> c, link |-> NoLink] :
          r \in Requests, pg \in PagesUpTo(MaxPosts), c \in KvsBefore }
    \cup { [req |-> r, page |-> FullPage, kv |-> <<>>, link |-> NoLink] :
               r \in FullPageRequests }
    \cup { [req |-> r, page |-> MixedPage, kv |-> <<>>, link |-> l] :
               r \in MixedPageRequests, l \in Links }
    \cup { [req |-> r, page |-> TwinPage,
            kv |-> IF r.prefetchMeta
                   THEN CachedNote(ApKey(Job(1, NoteUri(OriginHost, <<"n1">>))),
                                   DataWrapped(NoteWithReactions))
                   ELSE <<>>,
            link |-> NoLink] : r \in TwinPageRequests }

Init ==
    /\ \E sc \in Scenarios :
          /\ cookies = sc.req.cookies
          /\ prefetchMeta = sc.req.prefetchMeta
          /\ budgetMs = sc.req.budgetMs
          /\ merge = sc.req.merge
          /\ mergeLimit = sc.req.mergeLimit
          /\ debug = sc.req.debug
          /\ timeline = sc.page
          /\ kv = sc.kv
          /\ linkHeader = sc.link
    /\ forceAllReactions = FALSE
    /\ HandlerIdle("start")
    /\ fr = NoFetch
    /\ lk = <<>>
    /\ concurrency = GateLimit
    /\ active = 0
    /\ queue = <<>>
    /\ resuming = <<>>
    /\ jobs = <<>>
    /\ submitted = 0
    /\ jpc = <<>>
    /\ maxInFlight = 0
    /\ statuses = <<>>
    /\ metaMem = <<>>
    /\ netLog = <<>>
    /\ originMeta = MapSet(MapSet(<<>>, OriginHost, MetaOne), AltHost, RxRemoteMeta)
    /\ step = <<>>
    /\ jinfo = <<>>
    /\ obj = <<>>
    /\ rxMeta = <<>>
    /\ rxI = <<>>
    /\ out = <<>>
    /\ lastRx = NoRx

\* ---- the handler up to the batch ----

Respond(status, items, error) ==
    [status |-> status, items |-> items, next_max_id |-> <<>>, error |-> error]

\* the other variables of the Jobs, untouched by the handler's own steps
jobVars == <<concurrency, active, queue, resuming, jobs, submitted, jpc, maxInFlight, step,
             jinfo, obj, rxMeta, rxI, out, lastRx>>

\* home.ts 405-431: without both cookies the answer is 401
Start ==
    /\ hpc = "start"
    /\ IF loggedIn
       THEN /\ hpc' = "timeline"
            /\ hardStart' = now
            /\ UNCHANGED response
       ELSE /\ hpc' = "done"
            /\ response' = Respond(401, <<>>, "not logged in")
            /\ UNCHANGED hardStart
    /\ UNCHANGED <<now, pf, pfUntil, next_max_id, reqVars, countVars, statuses, cacheVars, worldVars, fr, lk,
                   jobVars>>

\* home.ts 474: st?.reblog?.uri || st?.uri
ApUriOf(st) == IF ~Falsy(st.reblogUri) THEN st.reblogUri ELSE st.uri

\* home.ts 475: !apUri || !/^https?:\/\//i.test(apUri)
NoApUri(apUri) == Falsy(apUri) \/ Head(apUri) \notin {"https://", "http://"}

\* home.ts 473-486, one turn of the loop: what becomes of the post
Verdict(st) ==
    IF NoApUri(ApUriOf(st)) THEN "skip_no_ap_uri"
    ELSE IF ~UrlParses(ApUriOf(st)) THEN "throw"
    ELSE IF Falsy(extractMisskeyNoteIdFromApUri(ApUriOf(st))) THEN "skip_non_misskey_shape"
    ELSE "job"

\* new URL(apUri) of home.ts 479 throws on some post of the page
ExtractionThrows(sts) == \E i \in 1..Len(sts) : Verdict(sts[i]) = "throw"

RECURSIVE AllJobs(_, _)
AllJobs(sts, i) ==
    IF i > Len(sts) THEN <<>>
    ELSE IF Verdict(sts[i]) = "job" THEN <<Job(i, ApUriOf(sts[i]))>> \o AllJobs(sts, i + 1)
    ELSE AllJobs(sts, i + 1)

\* home.ts 476 and 482: the skipped posts carry their stage when debug is on
Skipped(st) ==
    IF debug /\ Verdict(st) # "job" THEN [st EXCEPT !._mkDebug = Verdict(st)] ELSE st

\* home.ts 488: allJobs.slice(0, mergeLimit)
MutSliceAll(xs, n) == xs
Slice(xs, n) == SubSeq(xs, 1, Min(n, Len(xs)))

\* home.ts 490
UniqueHosts(js) == { js[i].host : i \in 1..Len(js) }

\* the Jobs of the batch, none started
BatchOf(js) ==
    /\ jobs' = js
    /\ jpc' = [i \in 1..Len(js) |-> "new"]
    /\ step' = [i \in 1..Len(js) |-> "new"]
    /\ jinfo' = [i \in 1..Len(js) |-> NoInfo]
    /\ obj' = [i \in 1..Len(js) |-> NoObj]
    /\ rxMeta' = [i \in 1..Len(js) |-> NoMeta]
    /\ rxI' = [i \in 1..Len(js) |-> 1]
    /\ out' = [i \in 1..Len(js) |-> <<>>]

\* home.ts 490-502: the prefetch starts unless the budget is spent
MutPrefetchWhateverBudget(js) ==
    IF prefetchMeta
    THEN /\ hpc' = "prefetch"
         /\ pf' = [h \in UniqueHosts(js) |-> "pending"]
         /\ pfUntil' = now + 600
    ELSE /\ hpc' = "submit"
         /\ UNCHANGED <<pf, pfUntil>>
PrefetchOrSubmit(js) ==
    IF ~budgetExpired /\ prefetchMeta
    THEN /\ hpc' = "prefetch"
         /\ pf' = [h \in UniqueHosts(js) |-> "pending"]
         /\ pfUntil' = now + Min(600, timeLeft)
    ELSE /\ hpc' = "submit"
         /\ UNCHANGED <<pf, pfUntil>>

\* home.ts 449-502 once the page is there
PageArrived ==
    /\ next_max_id' = NextMaxId(linkHeader, timeline)
    /\ IF ~merge
       THEN /\ statuses' = timeline
            /\ hpc' = "await"
            /\ UNCHANGED <<response, pf, pfUntil, jobs, jpc, step, jinfo, obj, rxMeta, rxI,
                           out>>
       ELSE IF ExtractionThrows(timeline)
       THEN /\ statuses' = timeline
            /\ hpc' = "threw"
            /\ response' = Respond(0, <<>>, "TypeError: Invalid URL")
            /\ UNCHANGED <<pf, pfUntil, jobs, jpc, step, jinfo, obj, rxMeta, rxI, out>>
       ELSE /\ statuses' = [i \in 1..Len(timeline) |-> Skipped(timeline[i])]
            /\ BatchOf(Slice(AllJobs(timeline, 1), mergeLimit))
            /\ PrefetchOrSubmit(Slice(AllJobs(timeline, 1), mergeLimit))
            /\ UNCHANGED response

\* home.ts 437-453: the timeline call answers, fails, or gives nothing in time
TimelineDone ==
    /\ hpc = "timeline"
    /\ \E answer \in {"ok", "notok", "throw"} :
          CASE answer = "ok" -> PageArrived
            [] answer = "notok" ->
                  /\ hpc' = "done"
                  /\ response' = Respond(502, <<>>, "mastodon")
                  /\ UNCHANGED <<statuses, pf, pfUntil, next_max_id, jobs, jpc, step, jinfo, obj,
                                 rxMeta, rxI, out>>
            [] OTHER ->
                  /\ hpc' = "threw"
                  /\ response' = Respond(0, <<>>, "AbortError")
                  /\ UNCHANGED <<statuses, pf, pfUntil, next_max_id, jobs, jpc, step, jinfo, obj,
                                 rxMeta, rxI, out>>
    /\ UNCHANGED <<now, hardStart, reqVars, countVars, cacheVars, worldVars, fr, lk, concurrency,
                   active, queue, resuming, submitted, maxInFlight, lastRx>>

\* home.ts 497: getMisskeyMeta(env, h, ...).catch(() => null) of one host
\* settles; it does so whether or not the handler still waits for it
PrefetchApply(h, r) ==
    /\ metaMem' = r.env.mem
    /\ kv' = r.env.kv
    /\ netLog' = r.env.log
    /\ pf' = [pf EXCEPT ![h] = "done"]

PrefetchHostDone(h) ==
    /\ hpc \in {"prefetch", "await"}
    /\ pf[h] = "pending"
    /\ \E outcome \in {"ok", "notok", "throw"} :
          PrefetchApply(h, getMisskeyMeta(Env, h, outcome, MapGet(originMeta, h, EmptyRawMeta)))
    /\ UNCHANGED <<now, hardStart, hpc, response, pfUntil, next_max_id, reqVars, countVars, statuses,
                   worldVars, fr, lk, jobVars>>

\* home.ts 494-501: Promise.race of the prefetches and the 600 ms timer
PrefetchEnd ==
    /\ hpc = "prefetch"
    /\ \/ \A h \in DOMAIN pf : pf[h] = "done"
       \/ now >= pfUntil
    /\ hpc' = "submit"
    /\ UNCHANGED <<now, hardStart, response, pf, pfUntil, next_max_id, reqVars, countVars, statuses,
                   cacheVars, worldVars, fr, lk, jobVars>>

\* the clock advances while the handler awaits
Tick ==
    /\ hpc \in {"timeline", "prefetch", "await"}
    /\ now < MaxTicks * TickMs
    /\ now' = now + TickMs
    /\ UNCHANGED <<hardStart, hpc, response, pf, pfUntil, next_max_id, reqVars, countVars, statuses,
                   cacheVars, worldVars, fr, lk, jobVars>>

\* ---- the body of a Job: home.ts 509-731 ----

\* home.ts 510: if (budgetExpired()) return
MutStartNeverRefused == FALSE
StartRefused == budgetExpired

\* home.ts 515
MutPerTryTimeoutNoFloor(left) == Min(900, left)
PerTryTimeout(left) == Max(350, Min(900, left))

\* home.ts 512: triedCount++
MutTriedNotCounted(n) == n
Tried(n) == n + 1

\* home.ts 510-516: the synchronous start of the task body
BodyStart(j) ==
    IF StartRefused
    THEN /\ step' = [step EXCEPT ![j] = "return"]
         /\ jinfo' = [jinfo EXCEPT ![j].started = TRUE,
                                   ![j].startLeft = timeLeft,
                                   ![j].log = Append(@, "budget_stop")]
         /\ UNCHANGED triedCount
    ELSE /\ step' = [step EXCEPT ![j] = "ap_show"]
         /\ jinfo' = [jinfo EXCEPT ![j].started = TRUE, ![j].tried = TRUE,
                                   ![j].startLeft = timeLeft,
                                   ![j].timeout = PerTryTimeout(timeLeft)]
         /\ triedCount' = Tried(triedCount)

\* home.ts 507-508: one run(...) of jobs.map; the task body starts at once
\* unless the gate is full
Submit ==
    /\ hpc = "submit"
    /\ submitted < Len(jobs)
    /\ submitted' = submitted + 1
    /\ LimiterEnter(submitted + 1)
    /\ IF GateFull(active, concurrency)
       THEN UNCHANGED <<step, jinfo, triedCount>>
       ELSE BodyStart(submitted + 1)
    /\ UNCHANGED <<concurrency, jobs, reqVars, handlerVars, mergedCount, errorCount, counters,
                   statuses, cacheVars, worldVars, fr, lk, obj, rxMeta, rxI, out, lastRx>>

\* home.ts 507: await Promise.all(...), every Job submitted
Await ==
    /\ hpc = "submit"
    /\ submitted = Len(jobs)
    /\ hpc' = "await"
    /\ UNCHANGED <<now, hardStart, response, pf, pfUntil, next_max_id, reqVars, countVars, statuses,
                   cacheVars, worldVars, fr, lk, jobVars>>

\* limiter, home.ts 157-158: a woken waiter runs its task
Wake(j) ==
    /\ hpc = "await"
    /\ jpc[j] = "woken"
    /\ LimiterResume(j)
    /\ BodyStart(j)
    /\ UNCHANGED <<concurrency, jobs, submitted, reqVars, handlerVars, mergedCount,
                   errorCount, counters, statuses, cacheVars, worldVars, fr, lk, obj, rxMeta, rxI, out,
                   lastRx>>

\* a task that returned at home.ts 510 settles: finally { next() }
Settle(j) ==
    /\ hpc = "await"
    /\ jpc[j] = "running"
    /\ step[j] = "return"
    /\ step' = [step EXCEPT ![j] = "end"]
    /\ LimiterNext(j, "done")
    /\ UNCHANGED <<concurrency, jobs, submitted, maxInFlight, reqVars, handlerVars,
                   countVars, statuses, cacheVars, worldVars, fr, lk, jinfo, obj, rxMeta, rxI,
                   out, lastRx>>

\* what one step of the body decides: where the body goes next, the note
\* object it holds, the debug stage of the post, what it adds to the Job's
\* record, and whether it ended in the catch of home.ts 725
Decided(next, o, stage, events, errored) ==
    [next |-> next, obj |-> o, stage |-> stage, events |-> events, errored |-> errored]

\* home.ts 549-562: with the object in hand
WithObject(o, stage, events) ==
    IF ~o.present THEN Decided("end", o, stage, events, FALSE)
    ELSE IF ~o.hasReactions THEN Decided("end", o, "no_reactions", events, FALSE)
    ELSE Decided("parse", o, stage, events, FALSE)

\* home.ts 725-728
Caught(events) == Decided("end", NoObj, "error", events, TRUE)

\* home.ts 517: apRes.data?.object || apRes.data || null
ObjOfAp(data) ==
    IF data.falsy THEN NoObj ELSE IF data.object.present THEN data.object ELSE data.self

\* home.ts 519: !obj && job.noteId
MutFallbackAlways(o, noteId) == ~Falsy(noteId)
NeedsFallback(o, noteId) == ~o.present /\ ~Falsy(noteId)

\* home.ts 520: if (budgetExpired()) return
MutFallbackNeverStopped == FALSE
FallbackStopped == budgetExpired

\* home.ts 540-547: the stage of a post whose note came without fallback
ApStage(cur, status) ==
    IF cur # "" THEN cur ELSE IF status = 200 THEN "ap_show_ok" ELSE "ap_show_failed"

\* getApShow returned: the Job's record tells whether it gave an object
ApEvents(events, data) ==
    events \o <<IF ObjOfAp(data).present THEN "ap_obj" ELSE "ap_noobj">>

\* home.ts 517-562 after getApShow returned { status, data }
AfterApShow(job, cur, status, data, events) ==
    IF NeedsFallback(ObjOfAp(data), job.noteId)
    THEN IF FallbackStopped
         THEN Decided("end", NoObj, cur,
                      ApEvents(events, data) \o <<"budget_stop_fallback">>, FALSE)
         ELSE Decided("notes_show", NoObj, cur, ApEvents(events, data), FALSE)
    ELSE WithObject(ObjOfAp(data), ApStage(cur, status), ApEvents(events, data))

\* home.ts 521-539 after getNotesShow returned { status, data }
AfterNotesShow(job, cur, status, data, events) ==
    IF status = 200 /\ ~data.falsy
    THEN WithObject(data.self, "fallback_notes_show_ok", events \o <<"notes_obj">>)
    ELSE WithObject(NoObj, "no_ap_object_and_notes_show_failed", events \o <<"notes_noobj">>)

\* the step takes effect on Job j; the Job's record keeps timeLeft() as the
\* check of home.ts 520 found it
Decide(j, d) ==
    /\ step' = [step EXCEPT ![j] = d.next]
    /\ obj' = [obj EXCEPT ![j] = d.obj]
    /\ rxMeta' = [rxMeta EXCEPT ![j] = IF d.next = "parse" THEN MetaForJob(jobs[j].host) ELSE @]
    /\ jinfo' = [jinfo EXCEPT ![j].log = @ \o d.events, ![j].errored = d.errored,
                              ![j].fallbackLeft =
                                  IF "ap_noobj" \in Range(d.events) THEN timeLeft ELSE @]
    /\ statuses' = [statuses EXCEPT ![jobs[j].st]._mkDebug = IF debug THEN d.stage ELSE @]
    /\ errorCount' = IF d.errored THEN errorCount + 1 ELSE errorCount
    /\ IF d.next = "end" THEN LimiterNext(j, "done") ELSE UNCHANGED <<active, queue, resuming, jpc>>

\* home.ts 206-211 and 377-382: the cached text answers for the origin
CacheAnswers(key) == KvHas(Env, key) /\ JsonParses(kv[key].text)

\* the origin call goes out
CallOut(j, op, event, next) ==
    /\ netLog' = Append(netLog, Call(op, jobs[j].host, jobs[j].apUri, 0))
    /\ step' = [step EXCEPT ![j] = next]
    /\ jinfo' = [jinfo EXCEPT ![j].log = Append(@, event)]
    /\ UNCHANGED <<active, queue, resuming, jpc, obj, rxMeta, statuses, errorCount>>

CurStage(j) == statuses[jobs[j].st]._mkDebug

\* home.ts 516, getApShow 204-221: the cache read, and the call on a miss
ApShowGet(j) ==
    /\ hpc = "await"
    /\ jpc[j] = "running"
    /\ step[j] = "ap_show"
    /\ IF CacheAnswers(ApKey(jobs[j]))
       THEN /\ Decide(j, AfterApShow(jobs[j], CurStage(j), 200,
                                     NoteParsed(kv[ApKey(jobs[j])].text), <<"ap_get">>))
            /\ UNCHANGED netLog
       ELSE CallOut(j, "ap/show", "ap_get", "ap_fetch")
    /\ UNCHANGED <<concurrency, jobs, submitted, maxInFlight, reqVars, handlerVars,
                   triedCount, mergedCount, counters, metaMem, kv, worldVars, fr, lk, rxI, out, lastRx>>

\* home.ts 213-227 and 516-547: the origin answered the call, or did not
ApReturned(job, cur, a) ==
    CASE a.kind = "throw" -> Caught(<<"ap_threw">>)
      [] a.kind = "badjson" -> Caught(<<"ap_badjson">>)
      [] a.kind = "notok" -> AfterApShow(job, cur, 500, DataNull, <<"ap_notok">>)
      [] OTHER -> AfterApShow(job, cur, 200, a.data, <<>>)

\* home.ts 223-226 and 394-397: `if (!res.ok) return` comes before KV.put
MutStoredWhateverStatus(key, a) == KvPut(Env, key, NoteJson(a.data), NoteTtl).kv
Stored(key, a) ==
    IF a.kind = "ok" THEN KvPut(Env, key, NoteJson(a.data), NoteTtl).kv ELSE kv

ApShowFetched(j) ==
    /\ hpc = "await"
    /\ jpc[j] = "running"
    /\ step[j] = "ap_fetch"
    /\ \E a \in ApAnswers(jobs[j].noteId) :
          /\ kv' = Stored(ApKey(jobs[j]), a)
          /\ Decide(j, ApReturned(jobs[j], CurStage(j), a))
    /\ UNCHANGED <<concurrency, jobs, submitted, maxInFlight, reqVars, handlerVars,
                   triedCount, mergedCount, counters, metaMem, netLog, worldVars, fr, lk, rxI, out, lastRx>>

\* home.ts 521, getNotesShow 376-392
NotesShowGet(j) ==
    /\ hpc = "await"
    /\ jpc[j] = "running"
    /\ step[j] = "notes_show"
    /\ IF CacheAnswers(NotesKey(jobs[j]))
       THEN /\ Decide(j, AfterNotesShow(jobs[j], CurStage(j), 200,
                                        NoteParsed(kv[NotesKey(jobs[j])].text),
                                        <<"notes_get">>))
            /\ UNCHANGED netLog
       ELSE CallOut(j, "notes/show", "notes_get", "notes_fetch")
    /\ UNCHANGED <<concurrency, jobs, submitted, maxInFlight, reqVars, handlerVars,
                   triedCount, mergedCount, counters, metaMem, kv, worldVars, fr, lk, rxI, out, lastRx>>

\* home.ts 394-398 and 521-539
NotesReturned(job, cur, a) ==
    CASE a.kind = "throw" -> Caught(<<"notes_threw">>)
      [] a.kind = "badjson" -> Caught(<<"notes_badjson">>)
      [] a.kind = "notok" -> AfterNotesShow(job, cur, 500, DataNull, <<"notes_notok">>)
      [] OTHER -> AfterNotesShow(job, cur, 200, a.data, <<>>)

NotesShowFetched(j) ==
    /\ hpc = "await"
    /\ jpc[j] = "running"
    /\ step[j] = "notes_fetch"
    /\ \E a \in NotesAnswers(jobs[j].noteId) :
          /\ kv' = Stored(NotesKey(jobs[j]), a)
          /\ Decide(j, NotesReturned(jobs[j], CurStage(j), a))
    /\ UNCHANGED <<concurrency, jobs, submitted, maxInFlight, reqVars, handlerVars,
                   triedCount, mergedCount, counters, metaMem, netLog, worldVars, fr, lk, rxI, out, lastRx>>

\* home.ts 734-743: every task settled, the page goes out
SendPage ==
    /\ hpc = "await"
    /\ \A j \in JobIds : jpc[j] = "done"
    /\ hpc' = "done"
    /\ response' = [Respond(200, statuses, "") EXCEPT !.next_max_id = next_max_id]
    /\ UNCHANGED <<now, hardStart, pf, pfUntil, next_max_id, reqVars, countVars, statuses, cacheVars,
                   worldVars, fr, lk, jobVars>>

Next ==
    \/ Start
    \/ TimelineDone
    \/ \E h \in DOMAIN pf : PrefetchHostDone(h)
    \/ PrefetchEnd
    \/ Tick
    \/ Submit
    \/ Await
    \/ \E j \in JobIds : Wake(j)
    \/ \E j \in JobIds : Settle(j)
    \/ \E j \in JobIds : ApShowGet(j)
    \/ \E j \in JobIds : ApShowFetched(j)
    \/ \E j \in JobIds : NotesShowGet(j)
    \/ \E j \in JobIds : NotesShowFetched(j)
    \/ \E j \in JobIds : RxStep(j)
    \/ \E j \in JobIds : RxFinish(j)
    \/ SendPage

Spec == Init /\ [][Next]_vars

-----------------------------------------------------------------------------
(* C1: in the enrichment batch, with the gate created with limit N and M > N
   Jobs submitted, at most N Job bodies are in flight at every instant, for
   every interleaving of completions and wake-ups. *)
ConcurrencyBound ==
    /\ Cardinality(InFlight) <= concurrency
    /\ maxInFlight <= concurrency

\* M > N Jobs were submitted, the gate was full with N bodies in flight, and a
\* waiter has since been woken and started
ConcurrencyBoundWitness ==
    /\ Len(jobs) > concurrency
    /\ submitted = Len(jobs)
    /\ maxInFlight = concurrency
    /\ concurrency = GateLimit
    /\ \E j \in JobIds : j > concurrency /\ jpc[j] = "running"
    /\ Cardinality(InFlight) = concurrency

-----------------------------------------------------------------------------
(* The descriptors a reaction loop has emitted so far, and the ones attached
   to the posts *)

Emitted ==
    UNION { {out[j][i] : i \in 1..Len(out[j])} : j \in DOMAIN out }

AttachedDescriptors ==
    UNION { {statuses[p]._mkReactions.list[i] :
                i \in 1..Len(statuses[p]._mkReactions.list)} : p \in DOMAIN statuses }

\* the last turn of a reaction loop was for a key whose count is zero or missing
LastRxZero == lastRx.job # 0 /\ CountOf(lastRx.raw) = 0

(* C8: without the force override no emitted descriptor has count 0: every
   key whose count is zero, missing or null is dropped before alias lookup and
   classification. *)
NoZeroCountEmitted ==
    ~forceAllReactions =>
        /\ \A d \in Emitted \cup AttachedDescriptors : d.count # 0
        /\ LastRxZero => ~lastRx.emit /\ lastRx.urlFrom = "skipped"

\* a key with count 0 was dropped from a map whose other key was emitted
NoZeroCountWitness ==
    /\ ~forceAllReactions
    /\ LastRxZero
    /\ lastRx.raw = <<0>>
    /\ Emitted # {}
    /\ \E j \in DOMAIN out : Len(out[j]) < rxI[j] - 1

(* C9, as claimed: for every emitted descriptor imageUrl is null if and only
   if the reaction is a literal unicode glyph (unicode branch or glyph alias);
   every descriptor of the custom branch has a non-null imageUrl. *)
UrlNullIffGlyph ==
    \A d \in Emitted :
        Falsy(d.url) <=> d.branch \in {"unicode", "alias_unicode"}

(* C9, amended: a descriptor of the unicode branch or of a glyph alias has a
   null imageUrl, and so has a descriptor of the custom branch for which every
   URL tier failed; a descriptor of the custom branch for which some tier
   yielded a URL carries that URL. *)
UrlNullIffGlyphOrUnresolved ==
    /\ \A d \in Emitted :
          /\ d.branch \in {"unicode", "alias_unicode"} => Falsy(d.url)
          /\ ~Falsy(d.url) => d.branch = "custom"
    /\ lastRx.emit /\ lastRx.d.branch = "custom" =>
          (Falsy(lastRx.d.url) <=> lastRx.urlFrom = "none")
    /\ lastRx.emit /\ lastRx.d.branch # "custom" => lastRx.urlFrom = "none"

\* one loop emitted a glyph with a null url, and then a custom reaction with a
\* url from one of the tiers
UrlNullWitness ==
    /\ lastRx.emit
    /\ lastRx.d.branch = "custom"
    /\ ~Falsy(lastRx.d.url)
    /\ \E d \in Emitted : d.branch \in {"unicode", "alias_unicode"} /\ Falsy(d.url)

\* the emoji list of the metadata the loop resolves against
TableOf(meta) == IF meta.present THEN meta.emojis ELSE <<>>

\* the URLs the table gives for exactly this normalized name, and for any name
\* that is a hyphen / underscore spelling of it
ExactUrls(list, name) ==
    {list[i].url : i \in {k \in 1..Len(list) : normalizeName(list[k].name) = name}}
VariantUrls(list, name) ==
    {list[i].url : i \in {k \in 1..Len(list) :
        ReplaceAll(normalizeName(list[k].name), "_", "-") = ReplaceAll(name, "_", "-")}}
TableUrls(list, name) ==
    IF ExactUrls(list, name) # {} THEN ExactUrls(list, name) ELSE VariantUrls(list, name)

\* the last turn resolved a raw custom key (no alias) that the table of the
\* origin host's metadata can resolve
LastRxResolvableByTable ==
    /\ lastRx.emit
    /\ lastRx.d.branch = "custom"
    /\ resolveAliasFromMeta(rxMeta[lastRx.job], normalizeName(lastRx.key)) = NoAlias
    /\ VariantUrls(TableOf(rxMeta[lastRx.job]), lastRx.d.name) # {}

(* C10: for every host emoji table, also one with several names that differ
   only in hyphen versus underscore, and every raw custom key resolvable via
   the table, the descriptor's imageUrl is the table's URL for that normalized
   name, whichever spelling the raw key uses. *)
UrlIsTableUrl ==
    LastRxResolvableByTable =>
        lastRx.d.url \in TableUrls(TableOf(rxMeta[lastRx.job]), lastRx.d.name)

-----------------------------------------------------------------------------
(* The record of the Jobs of a page request *)

Has(j, event) == event \in Range(jinfo[j].log)
Before(j, a, b) ==
    \E i, k \in 1..Len(jinfo[j].log) :
        i < k /\ jinfo[j].log[i] = a /\ jinfo[j].log[k] = b
PostOf(j) == statuses[jobs[j].st]
Unenriched(j) == ~PostOf(j)._mkReactions.set /\ ~PostOf(j)._mkHost.set

(* C2, as claimed: with mk_budget_ms = 0 no enrichment network call is
   dispatched, and every candidate post is returned unenriched with a
   "budget exhausted" diagnostic. *)
BudgetZeroNoCalls ==
    budgetMs = 0 =>
       /\ netLog = <<>>
       /\ \A j \in JobIds :
             /\ Unenriched(j)
             /\ hpc = "done" /\ debug => PostOf(j)._mkDebug = "budget_exhausted"

(* C2, amended: with mk_budget_ms = 0 the request has no budget.  The
   metadata prefetch is started whenever it is enabled and the page has
   Jobs, every Job whose body starts is attempted, and no Job is stopped for
   budget, neither at its start nor before its fallback. *)
BudgetZeroIsNoBudget ==
    budgetMs = 0 =>
       /\ prefetchMeta /\ jobs # <<>> => DOMAIN pf = UniqueHosts(jobs)
       /\ \A j \in JobIds :
             jinfo[j].started =>
                /\ jinfo[j].tried
                /\ step[j] # "return"
                /\ ~Has(j, "budget_stop")
                /\ ~Has(j, "budget_stop_fallback")

BudgetZeroWitness ==
    /\ budgetMs = 0
    /\ hpc = "done"
    /\ now - hardStart >= MaxTicks * TickMs
    /\ netLog # <<>>
    /\ \E h \in DOMAIN pf : pf[h] = "done"
    /\ \E j \in JobIds : jinfo[j].merged /\ Has(j, "notes_get")

(* C3: with a positive budget B, a Job whose body begins when B ms or more
   have elapsed is not dispatched: it reads no cache, makes no call, is not
   counted as attempted, and its post keeps neither reactions nor
   originHost. *)
LateJobNotDispatched ==
    \A j \in JobIds :
        budgetMs > 0 /\ jinfo[j].started /\ jinfo[j].startLeft = 0 =>
           /\ jinfo[j].log = <<"budget_stop">>
           /\ ~jinfo[j].tried
           /\ step[j] \in {"return", "end"}
           /\ obj[j] = NoObj
           /\ rxI[j] = 1
           /\ Unenriched(j)

\* a Job that waited at the gate starts late, after others were attempted
LateJobWitness ==
    /\ budgetMs > 0
    /\ hpc = "done"
    /\ \E j, k \in JobIds :
          /\ jinfo[j].started /\ jinfo[j].startLeft = 0 /\ step[j] = "end"
          /\ jinfo[k].tried /\ jinfo[k].startLeft > 0

(* C4, as claimed: a Job that started before the budget ran out runs every
   remaining step; in particular, when show-by-URI gave no object, the
   show-by-id fallback is queried, even if the budget expired meanwhile. *)
InFlightRunsEveryStep ==
    \A j \in JobIds :
        jinfo[j].tried /\ step[j] = "end" /\ Has(j, "ap_noobj") /\ ~Falsy(jobs[j].noteId) =>
           Has(j, "notes_get")

(* C4, amended: a Job that started before the budget ran out always does
   show-by-URI, and once it holds a note with reactions it resolves every
   key, whatever the budget; but after a show-by-URI that gave no object it
   queries show-by-id if and only if the budget has not expired at that
   moment, and otherwise ends there. *)
InFlightStopsOnlyBeforeFallback ==
    \A j \in JobIds :
        jinfo[j].tried /\ step[j] = "end" =>
           /\ Has(j, "ap_get")
           /\ Has(j, "ap_noobj") =>
                 (Has(j, "notes_get") <=> ~(budgetMs > 0 /\ jinfo[j].fallbackLeft = 0))
           /\ obj[j].present /\ obj[j].hasReactions =>
                 rxI[j] = Len(obj[j].reactions) + 1

\* the budget expired while show-by-URI was in flight, and the Job ended
\* without fallback; another Job held a note and resolved it to the end
InFlightWitness ==
    \E j \in JobIds :
        /\ budgetMs > 0
        /\ jinfo[j].tried /\ jinfo[j].startLeft > 0
        /\ step[j] = "end"
        /\ Has(j, "ap_noobj")
        /\ jinfo[j].fallbackLeft = 0
        /\ ~Has(j, "notes_get")

(* C5: whenever the timeline source returned the page, the request ends with
   a success response carrying all the posts: the handler throws only when
   the timeline call itself failed. *)
PageNeverFailsOnEnrichment ==
    /\ hpc = "threw" => response.error = "AbortError"
    /\ hpc = "done" /\ response.status \notin {401, 502} =>
          response.status = 200 /\ Len(response.items) = Len(timeline)

(* C6: show-by-id is queried only after show-by-URI was tried and gave no
   object; it is never queried when show-by-URI or its cache gave an object;
   and when both give nothing the Job ends unenriched, not errored. *)
OriginStepsInOrder ==
    \A j \in JobIds :
        /\ Has(j, "notes_get") \/ step[j] \in {"notes_show", "notes_fetch"} =>
              Before(j, "ap_get", "ap_noobj")
        /\ Has(j, "notes_get") => Before(j, "ap_noobj", "notes_get")
        /\ Has(j, "ap_obj") =>
              ~Has(j, "notes_get") /\ step[j] \notin {"notes_show", "notes_fetch"}
        /\ Has(j, "ap_noobj") /\ Has(j, "notes_noobj") =>
              step[j] = "end" /\ Unenriched(j) /\ ~jinfo[j].merged /\ ~jinfo[j].errored

\* one Job took its note from the fallback and was enriched; the page was
\* answered
OriginStepsWitness ==
    /\ hpc = "done"
    /\ \E j \in JobIds :
          /\ Before(j, "ap_noobj", "notes_get")
          /\ Has(j, "notes_obj")
          /\ jinfo[j].merged

(* C7: every failure of show-by-URI (a non-success status, a body that is
   not JSON, a timeout or transport failure) falls through to show-by-id
   when the budget allows it, and does not make the Job errored. *)
ShowByUriFailureFallsThrough ==
    \A j \in JobIds :
        /\ step[j] = "end"
        /\ Has(j, "ap_notok") \/ Has(j, "ap_badjson") \/ Has(j, "ap_threw")
        /\ ~Has(j, "budget_stop_fallback")
        => /\ Has(j, "notes_get")
           /\ jinfo[j].errored => Has(j, "notes_threw") \/ Has(j, "notes_badjson")

-----------------------------------------------------------------------------
(* Classification of a raw key: home.ts 585-623 *)

\* the last turn emitted a descriptor for a raw key without a colon and without
\* an alias hit whose normalized form is a name of the origin host's emoji table
LastRxColonlessName ==
    /\ lastRx.emit
    /\ ~includes(lastRx.key, ":")
    /\ resolveAliasFromMeta(rxMeta[lastRx.job], normalizeName(lastRx.key)) = NoAlias
    /\ ExactUrls(TableOf(rxMeta[lastRx.job]), normalizeName(lastRx.key)) # {}

(* C11: every raw key without a colon (and without an alias hit) that exactly
   matches a custom-emoji name of the origin host's metadata is classified
   custom, not unicode, and is resolved to that emoji's URL. *)
ColonlessNameIsCustom ==
    LastRxColonlessName =>
        /\ lastRx.d.branch = "custom"
        /\ lastRx.d.url \in ExactUrls(TableOf(rxMeta[lastRx.job]), normalizeName(lastRx.key))

\* the classification half of C11 alone
ColonlessNameBranchIsCustom ==
    LastRxColonlessName => lastRx.d.branch = "custom" /\ lastRx.urlFrom = "meta"

-----------------------------------------------------------------------------
(* Resolving a raw key a second time: home.ts 38-76, 327-371, 625-674 *)

\* this step is the turn of Job j for the one key of the note, and Job o has
\* resolved that key before
SecondTurn(j, o) ==
    /\ j # o
    /\ rxI[o] = 2
    /\ rxI[j] = 1
    /\ rxI'[j] = 2

\* a fetch of some host's /api/meta was issued and left nothing in the process
\* tier: it failed
MetaFetchFailed ==
    \E i \in 1..Len(netLog) : netLog[i].op = "meta" /\ netLog[i].host \notin DOMAIN metaMem

(* C12, as claimed: the second resolution of the same (host, rawKey) pair
   yields the same descriptor as the first and issues no network call,
   whatever the outcome of the first resolution was. *)
ResolvedTwiceSame ==
    [][\A j, o \in JobIds :
          SecondTurn(j, o) => netLog' = netLog /\ out'[j] = out[o]]_vars

(* C12, amended: the second resolution of the same (host, rawKey) pair yields
   the same descriptor as the first and issues no network call, unless the
   first resolution's fetch of the alternate host's metadata failed. *)
ResolvedTwiceSameUnlessMetaFailed ==
    [][\A j, o \in JobIds :
          SecondTurn(j, o) /\ ~MetaFetchFailed =>
              netLog' = netLog /\ out'[j] = out[o]]_vars

\* both Jobs resolved the key to the same descriptor, the first resolution
\* issued network calls, and no metadata fetch failed
ResolvedTwiceWitness ==
    /\ rxI = <<2, 2>>
    /\ out[1] # <<>>
    /\ out[1] = out[2]
    /\ netLog # <<>>
    /\ ~MetaFetchFailed

-----------------------------------------------------------------------------
(* A raw key that names an alternate host: home.ts 230-235, 636-646 *)

\* the last turn emitted a descriptor for a raw key :name@host: without an
\* alias hit and without a match in the origin host's metadata
LastRxAltHostKey ==
    /\ lastRx.emit
    /\ includes(lastRx.key, ":")
    /\ ~Falsy(parseMkReactionKey(lastRx.key).host)
    /\ resolveAliasFromMeta(rxMeta[lastRx.job], normalizeName(lastRx.key)) = NoAlias
    /\ Falsy(resolveEmojiUrlFromMeta(rxMeta[lastRx.job], parseMkReactionKey(lastRx.key).name))

\* the emoji table the host named by the last turn's key serves
AltTable == MapGet(originMeta, parseMkReactionKey(lastRx.key).host, EmptyRawMeta).emojis

(* C13: a raw key :name@althost: with no alias hit and no match in the origin
   host's metadata is resolved by fetching althost's metadata, and, the
   metadata being served and holding an entry for name, the descriptor's
   imageUrl is that entry's URL. *)
AltHostKeyUsesAltTable ==
    /\ LastRxAltHostKey
    /\ parseMkReactionKey(lastRx.key).host \in DOMAIN metaMem
    /\ ExactUrls(AltTable, parseMkReactionKey(lastRx.key).name) # {}
    => /\ \E i \in 1..Len(netLog) :
             netLog[i].op = "meta" /\ netLog[i].host = parseMkReactionKey(lastRx.key).host
       /\ lastRx.urlFrom = "remote_meta"
       /\ lastRx.d.url \in ExactUrls(AltTable, parseMkReactionKey(lastRx.key).name)

\* C13 without the URL: the alternate host's metadata is fetched and the
\* alternate-host tier decides
AltHostKeyFetchesAltMeta ==
    /\ LastRxAltHostKey
    /\ parseMkReactionKey(lastRx.key).host \in DOMAIN metaMem
    /\ ExactUrls(AltTable, parseMkReactionKey(lastRx.key).name) # {}
    => /\ \E i \in 1..Len(netLog) :
             netLog[i].op = "meta" /\ netLog[i].host = parseMkReactionKey(lastRx.key).host
       /\ lastRx.urlFrom = "remote_meta"
       /\ lastRx.d.url \in VariantUrls(AltTable, parseMkReactionKey(lastRx.key).name)

-----------------------------------------------------------------------------
(* A raw key that is a literal glyph: home.ts 582-623 *)

\* the glyph of the model
Glyph == RawKeys[1]

\* the last turn emitted a descriptor for the glyph
LastRxGlyph == lastRx.emit /\ lastRx.key = Glyph

(* C14, as claimed: a raw key that is a literal glyph always yields the
   descriptor {displayName: the glyph, imageUrl: null}, whatever emoji table
   and alias table the host metadata holds. *)
GlyphIgnoresMeta ==
    LastRxGlyph =>
        /\ lastRx.d.name = Glyph
        /\ Falsy(lastRx.d.url)

(* C14, amended: a raw key that is a literal glyph yields the descriptor
   {displayName: the glyph, imageUrl: null} whatever the host metadata holds
   otherwise, provided its alias table has no entry for the glyph and its
   emoji table has no emoji named by the glyph. *)
GlyphIgnoresMetaWithoutEntry ==
    /\ LastRxGlyph
    /\ resolveAliasFromMeta(rxMeta[lastRx.job], normalizeName(Glyph)) = NoAlias
    /\ Falsy(resolveEmojiUrlFromMeta(rxMeta[lastRx.job], normalizeName(Glyph)))
    => lastRx.d = Descriptor(Glyph, <<>>, CountOf(lastRx.raw), Glyph, <<>>, "unicode")

\* the glyph was emitted as itself against a metadata that holds an emoji
\* table and an alias table
GlyphWitness ==
    /\ LastRxGlyph
    /\ rxMeta[lastRx.job].present
    /\ rxMeta[lastRx.job].emojis # <<>>
    /\ rxMeta[lastRx.job].reactionEmojis # <<>>
    /\ lastRx.d.name = Glyph
    /\ lastRx.d.branch = "unicode"

-----------------------------------------------------------------------------
(* The durable cache of probe results: home.ts 38-76 *)

\* the keys of the durable tier that hold a probe result
ProbeKeys ==
    {emojiUrlCacheKey(toLowerCase(trim(h)), toLowerCase(trim(n))) :
        h \in ProbeHosts, n \in ProbeNames}

\* this step is a probe of key
ProbeStep(key) ==
    \E host \in ProbeHosts, name \in ProbeNames, win \in ProbeWins :
        /\ key = emojiUrlCacheKey(toLowerCase(trim(host)), toLowerCase(trim(name)))
        /\ ProbeCall(host, name, win)

(* C15: a probe of a (host, name) whose earlier probe result, found or
   negative, is still in the durable cache returns that result and attempts
   no public-path request; a probe that finds no live entry stores its result,
   a found URL for 7 days and a negative result for 15 minutes. *)
ProbeCachedWithinTtl ==
    [][\A key \in ProbeKeys :
          ProbeStep(key) =>
              IF key \in DOMAIN kv
              THEN /\ netLog' = netLog
                   /\ kv' = kv
                   /\ lastRx'.d.url = kv[key].text.v
              ELSE /\ netLog' # netLog
                   /\ key \in DOMAIN kv'
                   /\ kv'[key].text.v = lastRx'.d.url
                   /\ kv'[key].ttl = IF Falsy(lastRx'.d.url)
                                     THEN ProbeNegativeTtl ELSE ProbeTtl
                   /\ ProbeNegativeTtl < ProbeTtl]_vars

\* a found URL was answered from the durable cache, the last public-path
\* request being one for another name, while the negative entry for that
\* other name has expired
ProbeCachedWitness ==
    /\ now = 1000 * ProbeNegativeTtl
    /\ lastRx.urlFrom = "probe"
    /\ lastRx.key \in DOMAIN kv
    /\ kv[lastRx.key].ttl = ProbeTtl - ProbeNegativeTtl
    /\ netLog # <<>>
    /\ netLog[Len(netLog)].n = Len(ProbePaths)
    /\ emojiUrlCacheKey(netLog[Len(netLog)].host, netLog[Len(netLog)].name) # lastRx.key
    /\ emojiUrlCacheKey(netLog[Len(netLog)].host, netLog[Len(netLog)].name) \notin DOMAIN kv

-----------------------------------------------------------------------------
(* The order of the URL tiers: home.ts 361-371, 625-674 *)

\* the last turn emitted a custom descriptor
LastRxCustom == lastRx.emit /\ lastRx.d.branch = "custom"

\* what tier (a), the origin host's metadata, and tier (c), the Emoji tags of
\* the origin note, give for the name of the last turn
LastRxByMeta == resolveEmojiUrlFromMeta(rxMeta[lastRx.job], lastRx.d.name)
LastRxByTag == resolveEmojiUrlFromApTag(obj[lastRx.job].tag, lastRx.d.name)

\* a public-path request for the name of the last turn was issued
LastRxNameProbed ==
    \E i \in 1..Len(netLog) : netLog[i].op = "probe" /\ netLog[i].name = lastRx.d.name

(* C16: for a custom reaction the tiers are consulted in the order origin
   host metadata, alternate-host metadata, embedded Emoji tags, public-path
   probing, and the first tier that yields a URL decides imageUrl; no
   public-path probe is attempted before the tags were searched and yielded
   nothing. *)
TiersInOrder ==
    LastRxCustom =>
        /\ ~Falsy(LastRxByMeta) => lastRx.urlFrom = "meta" /\ lastRx.d.url = LastRxByMeta
        /\ lastRx.urlFrom = "remote_meta" =>
              /\ Falsy(LastRxByMeta)
              /\ lastRx.d.url \in
                    VariantUrls(MapGet(originMeta, lastRx.d.host, EmptyRawMeta).emojis,
                                lastRx.d.name)
        /\ lastRx.urlFrom = "ap_tag" => Falsy(LastRxByMeta) /\ lastRx.d.url = LastRxByTag
        /\ lastRx.urlFrom \in {"probe", "none"} => Falsy(LastRxByMeta) /\ Falsy(LastRxByTag)
        /\ ~Falsy(LastRxByTag) => ~LastRxNameProbed

\* the order the loop follows: the alternate-host tier includes the public
\* paths of the alternate host
TiersInOrderWithAltProbe ==
    LastRxCustom =>
        /\ ~Falsy(LastRxByMeta) => lastRx.urlFrom = "meta" /\ lastRx.d.url = LastRxByMeta
        /\ lastRx.urlFrom = "remote_meta" =>
              /\ Falsy(LastRxByMeta)
              /\ \/ lastRx.d.url \in
                       VariantUrls(MapGet(originMeta, lastRx.d.host, EmptyRawMeta).emojis,
                                   lastRx.d.name)
                 \/ \E i \in 1..Len(ProbePaths) :
                       lastRx.d.url = ProbeUrl(lastRx.d.host, lastRx.d.name, i)
        /\ lastRx.urlFrom = "ap_tag" => Falsy(LastRxByMeta) /\ lastRx.d.url = LastRxByTag
        /\ lastRx.urlFrom \in {"probe", "none"} => Falsy(LastRxByMeta) /\ Falsy(LastRxByTag)

-----------------------------------------------------------------------------
(* The alias step: home.ts 189-200, 588-608 *)

\* the alias-table entry for the raw key of the last turn
LastRxAlias == resolveAliasFromMeta(rxMeta[lastRx.job], normalizeName(lastRx.key))

\* a fetch of the host's /api/meta was issued
MetaFetchedFrom(host) ==
    \E i \in 1..Len(netLog) : netLog[i].op = "meta" /\ netLog[i].host = host

(* C17: when the normalized raw key, in any hyphen / underscore spelling, has
   an entry in the host's alias table, the alias decides whatever the key's
   syntax: a glyph alias emits {displayName: glyph, imageUrl: null} at once,
   and a custom alias continues the resolution with the alias's name and,
   when the alias names one, the alias's host. *)
AliasDecides ==
    lastRx.emit /\ LastRxAlias # NoAlias =>
        IF LastRxAlias.kind = "unicode"
        THEN /\ lastRx.d = Descriptor(LastRxAlias.char, <<>>, CountOf(lastRx.raw),
                                      LastRxAlias.char, <<>>, "alias_unicode")
             /\ lastRx.urlFrom = "none"
        ELSE /\ lastRx.d.branch = "custom"
             /\ lastRx.d.name = LastRxAlias.name
             /\ ~Falsy(LastRxAlias.host) /\ Falsy(LastRxByMeta) =>
                   /\ MetaFetchedFrom(LastRxAlias.host)
                   /\ lastRx.urlFrom \in {"remote_meta", "none"} =>
                         lastRx.d.host = LastRxAlias.host

\* after a key was emitted as the glyph of its alias, a key in the other
\* spelling of its alias key was resolved with the name and on the host its
\* custom alias names
AliasDecidesWitness ==
    /\ lastRx.emit
    /\ LastRxAlias.kind = "custom"
    /\ lastRx.d.name = <<"b">>
    /\ lastRx.d.name # normalizeName(lastRx.key)
    /\ lastRx.urlFrom = "remote_meta"
    /\ lastRx.d.host = AltHost
    /\ lastRx.d.url = UrlC
    /\ \E d \in Emitted : d.branch = "alias_unicode"

-----------------------------------------------------------------------------
(* Syntax classification of a key without colons: home.ts 230-235 *)

\* the characters of a shortcode: letters, digits, dot, underscore, hyphen
ShortcodeChars == {"a", "b", "c", "d", "k", "r", "z", "A", "B", "R", "_", "-", "."}

\* a name of shortcode characters, optionally followed by @ and a host
ShortcodeLike(key) ==
    /\ key # <<>>
    /\ SplitAtName(key) # <<>>
    /\ \A i \in 1..Len(SplitAtName(key)) : SplitAtName(key)[i] \in ShortcodeChars
    /\ \A i \in 1..Len(SplitAtHost(key)) : SplitAtHost(key)[i] \in ShortcodeChars \ {"_"}
    /\ Len(SplitAtName(key)) + Len(SplitAtHost(key)) \in {Len(key), Len(key) - 1}

(* C18: a key with no colons that matches the shortcode-like pattern and has
   no alias hit is classified custom, not unicode, also when it matches no
   name of the host metadata. *)
ShortcodeIsCustom ==
    /\ lastRx.emit
    /\ ~includes(lastRx.key, ":")
    /\ ShortcodeLike(lastRx.key)
    /\ LastRxAlias = NoAlias
    => lastRx.d.branch = "custom"

-----------------------------------------------------------------------------
(* A custom reaction without a URL: home.ts 692-700 *)

\* the positions of the descriptors of list that are custom and have no URL
WithoutUrl(list) ==
    {i \in 1..Len(list) : list[i].branch = "custom" /\ Falsy(list[i].url)}

(* C19: a custom reaction for which every URL tier failed is still emitted,
   as {displayName: name, imageUrl: null} with its count; it is counted in
   custom_without_url; it does not make the Job errored, and the post gets
   its reaction list. *)
CustomWithoutUrlEmitted ==
    /\ LastRxCustom /\ lastRx.urlFrom = "none" =>
          /\ Falsy(lastRx.d.url)
          /\ lastRx.d.count = CountOf(lastRx.raw)
          /\ out[lastRx.job] # <<>>
          /\ out[lastRx.job][Len(out[lastRx.job])] = lastRx.d
    /\ \A j \in JobIds :
          /\ counters.custom_without_url = Cardinality(WithoutUrl(out[j]))
          /\ WithoutUrl(out[j]) # {} =>
                /\ ~jinfo[j].errored
                /\ errorCount = 0
                /\ step[j] = "end" =>
                      /\ jinfo[j].merged
                      /\ statuses[jobs[j].st]._mkReactions.set
                      /\ statuses[jobs[j].st]._mkReactions.list = out[j]

\* the loop is over, its last key was a custom one for which every tier
\* failed, public paths included, and the post carries the descriptor
CustomWithoutUrlWitness ==
    /\ LastRxCustom
    /\ lastRx.urlFrom = "none"
    /\ \E i \in 1..Len(netLog) : netLog[i].op = "probe" /\ netLog[i].n = Len(ProbePaths)
    /\ step[lastRx.job] = "end"
    /\ counters.custom_without_url = 1
    /\ lastRx.d \in AttachedDescriptors

-----------------------------------------------------------------------------
(* The tiers of a host-metadata lookup: home.ts 327-358 *)

\* this step is a lookup of the host's metadata to which the origin answers
\* with outcome
MetaStep(host, outcome) ==
    \E h \in MetaHosts : normalizeHost(h) = host /\ MetaCall(h, outcome)

\* what that lookup returns
MetaStepValue(host, outcome) ==
    getMisskeyMeta(Env, host, outcome, MapGet(originMeta, host, EmptyRawMeta)).val

(* C20: a host-metadata lookup consults the process tier, then the durable
   tier, then the origin: a process-tier hit is returned without touching the
   durable tier or the origin, whatever the durable tier holds; on a
   process-tier miss a durable hit is returned without an origin fetch and
   is put in the process tier; the origin is fetched only when both miss, and
   after a successful fetch both tiers hold the entry. *)
MetaTiersInOrder ==
    [][\A host \in {normalizeHost(h) : h \in MetaHosts}, outcome \in {"ok", "notok", "throw"} :
          MetaStep(host, outcome) =>
              IF host \in DOMAIN metaMem
              THEN /\ MetaStepValue(host, outcome) = metaMem[host]
                   /\ netLog' = netLog
                   /\ kv' = kv
                   /\ metaMem' = metaMem
              ELSE IF CacheAnswers(MetaKey(host))
              THEN /\ MetaStepValue(host, outcome) = buildMetaIndex(kv[MetaKey(host)].text.v)
                   /\ netLog' = netLog
                   /\ kv' = kv
                   /\ host \in DOMAIN metaMem'
                   /\ metaMem'[host] = MetaStepValue(host, outcome)
              ELSE /\ netLog' = Append(netLog, Call("meta", host, <<>>, 0))
                   /\ outcome = "ok" =>
                         /\ MetaStepValue(host, outcome) = buildMetaIndex(originMeta[host])
                         /\ host \in DOMAIN metaMem'
                         /\ metaMem'[host] = MetaStepValue(host, outcome)
                         /\ CacheAnswers(MetaKey(host))'
                         /\ kv'[MetaKey(host)].text.v = originMeta[host]
                         /\ kv'[MetaKey(host)].ttl = MetaTtl]_vars

\* a lookup filled the process tier from the text another process had stored
\* in the durable tier, while the origin was fetched once, for another host or
\* in vain
MetaTiersWitness ==
    /\ lastRx.key = MetaKey(AltHost)
    /\ Len(netLog) = 1
    /\ AltHost \in DOMAIN metaMem
    /\ metaMem[AltHost] = buildMetaIndex(RxRemoteMeta)
    /\ CacheAnswers(MetaKey(AltHost))
    /\ kv[MetaKey(AltHost)].text.v = RxRemoteMeta

-----------------------------------------------------------------------------
(* Candidate extraction and the batch: home.ts 470-509 *)

\* the loop of home.ts 473-486 ran to its end and the page was not refused
Extracted ==
    /\ merge
    /\ hpc \in {"prefetch", "submit", "await", "done"}
    /\ response.status \in {0, 200}

\* the two tests of a post's originUri: an absolute http(s) URI, and a path
\* that starts with /notes/ and an identifier
NoteShaped(u) ==
    /\ Len(UrlPath(u)) >= 2
    /\ UrlPath(u)[1] = "/notes/"
    /\ UrlPath(u)[2] \notin PathTokens
Enrichable(st) == UrlParses(ApUriOf(st)) /\ NoteShaped(ApUriOf(st))

\* the posts of the page that pass both tests, in page order
RECURSIVE CandidatesFrom(_, _)
CandidatesFrom(sts, i) ==
    IF i > Len(sts) THEN <<>>
    ELSE IF Enrichable(sts[i]) THEN <<i>> \o CandidatesFrom(sts, i + 1)
    ELSE CandidatesFrom(sts, i + 1)

\* the origin note calls (show-by-URI, show-by-id) made for the post at
\* position i
CallsFor(i) ==
    { n \in 1..Len(netLog) : /\ netLog[n].op \in {"ap/show", "notes/show"}
                             /\ netLog[n].name = ApUriOf(timeline[i]) }

(* C21: once candidate extraction has run, every Job belongs to a post whose
   originUri passes both tests (absolute http(s) URI, path /notes/<id>), and
   every post that passes both tests has its Job among the first mergeLimit
   such posts; a post that fails a test has no Job, no origin call is made
   for its URI, and it never carries reactions or originHost; on a page
   without a passing post nothing is fetched or cached at all. *)
JobIffEnrichable ==
    Extracted =>
        /\ \A j \in JobIds : Enrichable(timeline[jobs[j].st])
        /\ \A i \in 1..Len(timeline) :
              /\ Enrichable(timeline[i]) /\ Len(CandidatesFrom(timeline, 1)) <= mergeLimit
                    => \E j \in JobIds : jobs[j].st = i /\ jobs[j].apUri = ApUriOf(timeline[i])
              /\ ~Enrichable(timeline[i])
                    => /\ \A j \in JobIds : jobs[j].st # i
                       /\ CallsFor(i) = {}
                       /\ ~statuses[i]._mkReactions.set
                       /\ ~statuses[i]._mkHost.set
        /\ CandidatesFrom(timeline, 1) = <<>> =>
              netLog = <<>> /\ metaMem = <<>> /\ DOMAIN pf = {}

\* the page was answered; its first post failed the shape test and was left
\* alone, its second post became a Job, was fetched and got its reactions
JobIffEnrichableWitness ==
    /\ Extracted
    /\ hpc = "done"
    /\ Len(timeline) = 3
    /\ UrlParses(ApUriOf(timeline[1])) /\ ~NoteShaped(ApUriOf(timeline[1]))
    /\ ~statuses[1]._mkReactions.set
    /\ \E j \in JobIds : jobs[j].st = 2 /\ jinfo[j].merged
    /\ statuses[2]._mkReactions.set
    /\ netLog # <<>>

\* the calls of one kind in the log
CallsOf(op) == { n \in 1..Len(netLog) : netLog[n].op = op }

(* C22: at most mergeLimit Jobs exist, and they are the first mergeLimit
   candidates of the page in page order; a candidate beyond the limit has no
   Job at any later moment of the request, no origin call goes out for it
   (there are no more show-by-URI calls than Jobs, and none for a URI that
   no Job holds), and its post carries nothing of the enrichment. *)
JobsAreFirstCandidates ==
    Extracted =>
        /\ Len(jobs) <= mergeLimit
        /\ Len(jobs) = Min(mergeLimit, Len(CandidatesFrom(timeline, 1)))
        /\ \A j \in JobIds : jobs[j].st = CandidatesFrom(timeline, 1)[j]
        /\ Cardinality(CallsOf("ap/show")) <= Len(jobs)
        /\ triedCount <= Len(jobs)
        /\ \A k \in (mergeLimit + 1)..Len(CandidatesFrom(timeline, 1)) :
              /\ \A j \in JobIds : jobs[j].st # CandidatesFrom(timeline, 1)[k]
              /\ \A n \in CallsFor(CandidatesFrom(timeline, 1)[k]) :
                    \E j \in JobIds : jobs[j].apUri = netLog[n].name
              /\ statuses[CandidatesFrom(timeline, 1)[k]] = timeline[CandidatesFrom(timeline, 1)[k]]

\* the page had two candidates and a limit of one: the first got its
\* reactions, the second was never called for and left as it came
JobsAreFirstCandidatesWitness ==
    /\ Extracted
    /\ hpc = "done"
    /\ mergeLimit = 1
    /\ Len(CandidatesFrom(timeline, 1)) = 2
    /\ Len(jobs) = 1
    /\ jinfo[1].merged
    /\ netLog # <<>>
    /\ CallsFor(CandidatesFrom(timeline, 1)[2]) = {}
    /\ response.items[CandidatesFrom(timeline, 1)[2]] = timeline[CandidatesFrom(timeline, 1)[2]]

-----------------------------------------------------------------------------
(* C23: a request that lacks ap_token or ap_inst takes one step only, the
   401 answer of home.ts 409-414: that step fetches no timeline, reads and
   writes no cache, issues no origin call and creates no Job. *)
MissingCookieIs401 ==
    [][ Falsy(cookies.ap_token) \/ Falsy(cookies.ap_inst) =>
            /\ hpc = "start"
            /\ hpc' = "done"
            /\ response'.status = 401
            /\ response'.items = <<>>
            /\ UNCHANGED <<now, statuses, cacheVars, worldVars, fr, lk, countVars, jobVars,
                           pf, pfUntil, next_max_id>> ]_vars

\* a request with ap_token and without ap_inst was answered 401 while the
\* timeline source held a page and the durable tier a note for it
MissingCookieWitness ==
    /\ ~Falsy(cookies.ap_token)
    /\ Falsy(cookies.ap_inst)
    /\ hpc = "done"
    /\ response.status = 401
    /\ timeline # <<>>
    /\ kv # <<>>
    /\ netLog = <<>>
    /\ statuses = <<>>

-----------------------------------------------------------------------------
(* The page that goes out: home.ts 449-453 and 707-743 *)

\* a post without what enrichment may add to it
Unmerged(st) ==
    [st EXCEPT !._mkReactions = [set |-> FALSE, list |-> <<>>],
               !._mkHost = [set |-> FALSE, val |-> <<>>],
               !._mkDebug = ""]

\* the page is in the handler's hands, or went out
PageHeld == hpc \in {"prefetch", "submit", "await"} \/ (hpc = "done" /\ response.status = 200)

(* C24: from the arrival of the page to the response, the posts are those of
   the timeline response, as many and in the same order, each differing from
   the post that arrived at most in reactions, originHost and the diagnostic
   field (the latter only with debug on); next_max_id is the max_id of the
   Link header's rel="next" entry, else the id of the last post, whatever
   enrichment did; the response carries these posts and this cursor. *)
PageAndCursorKept ==
    /\ PageHeld =>
          /\ Len(statuses) = Len(timeline)
          /\ \A i \in 1..Len(timeline) :
                /\ Unmerged(statuses[i]) = timeline[i]
                /\ ~debug => statuses[i]._mkDebug = ""
          /\ next_max_id =
                IF parseLinkForNextMaxId(linkHeader) # <<>>
                THEN parseLinkForNextMaxId(linkHeader)
                ELSE IF timeline # <<>> THEN timeline[Len(timeline)].id ELSE <<>>
    /\ hpc = "done" /\ response.status = 200 =>
          response.items = statuses /\ response.next_max_id = next_max_id

\* a page of three posts went out with the cursor of its Link header, its
\* second post enriched and the two others as they came
PageAndCursorWitness ==
    /\ hpc = "done"
    /\ response.status = 200
    /\ Len(response.items) = 3
    /\ response.items[2]._mkReactions.set
    /\ response.items[1] = timeline[1]
    /\ response.items[3] = timeline[3]
    /\ response.next_max_id = <<"9">>
    /\ response.next_max_id # timeline[3].id

-----------------------------------------------------------------------------
(* fetchRetry: home.ts 95-146 *)

\* the answers after which the claim allows a further attempt: a 5xx, 429 or
\* 408 response, or no response at all
Retryable(a) == a = 0 \/ a \in 500..599 \/ a \in {429, 408}

(* C25: a call of fetchRetry with retries = R makes at most R + 1 attempts;
   every attempt after the first follows an attempt that got a 5xx, 429 or
   408 response or no response; a response with another status ends the
   call at once: it is the value returned, after no further attempt and no
   delay beyond those slept before its attempt. *)
RetryOnlyWhenRetryable ==
    /\ Len(fr.seen) <= fr.retries + 1
    /\ Len(netLog) = Len(fr.seen)
    /\ \A k \in 2..Len(fr.seen) : Retryable(fr.seen[k - 1])
    /\ \A k \in 1..Len(fr.seen) :
          ~Retryable(fr.seen[k]) =>
              /\ k = Len(fr.seen)
              /\ fr.pc = "returned"
              /\ fr.result = fr.seen[k]
              /\ Len(fr.waited) = k - 1

\* with two retries allowed, a 500 and a timeout were retried and the 404
\* of the third attempt was returned
RetryWitness ==
    /\ fr.retries = 2
    /\ fr.seen = <<500, 0, 404>>
    /\ fr.pc = "returned"
    /\ fr.result = 404
    /\ fr.waited = <<200, 400>>

-----------------------------------------------------------------------------
(* The timeout of a Job's origin calls: home.ts 514-521 *)

(* C26: the timeout a Job hands to show-by-URI and show-by-id is the
   smaller of the per-call default (900 ms) and the budget left when the Job
   started, and never exceeds that budget. *)
TimeoutIsMinOfDefaultAndBudget ==
    \A j \in JobIds :
        jinfo[j].tried =>
            /\ jinfo[j].timeout = Min(900, jinfo[j].startLeft)
            /\ jinfo[j].timeout <= jinfo[j].startLeft

(* C26, amended: the timeout is the smaller of 900 ms and the budget left
   when the Job started, but at least 350 ms; it exceeds the budget left at
   the Job's start only when less than 350 ms were left. *)
TimeoutIsMinWithFloor ==
    \A j \in JobIds :
        jinfo[j].tried =>
            /\ jinfo[j].timeout =
                  IF jinfo[j].startLeft < 350 THEN 350 ELSE Min(900, jinfo[j].startLeft)
            /\ jinfo[j].startLeft >= 350 => jinfo[j].timeout <= jinfo[j].startLeft

\* a Job started with less than 350 ms left and called show-by-URI and
\* show-by-id with a timeout of 350 ms
TimeoutFloorWitness ==
    \E j \in JobIds :
        /\ jinfo[j].tried
        /\ jinfo[j].startLeft > 0
        /\ jinfo[j].startLeft < 350
        /\ jinfo[j].timeout = 350
        /\ Before(j, "ap_get", "notes_get")
        /\ \E n \in CallsOf("notes/show") : netLog[n].name = jobs[j].apUri

-----------------------------------------------------------------------------
(* limiter: the order of admission, home.ts 148-167 *)

Started(j) == jpc[j] \in {"running", "done", "threw"}

(* C27: the Jobs that found the gate full are admitted in submission order:
   the queue holds them in that order, next() releases the one that waited
   longest, and no Job is released or started while a Job submitted before
   it still waits for its slot or for its start. *)
FifoAdmission ==
    /\ \A a, b \in 1..Len(queue) : a < b => queue[a] < queue[b]
    /\ \A i, j \in JobIds :
          i < j =>
              /\ jpc[j] \in {"woken", "running", "done", "threw"} => jpc[i] # "waiting"
              /\ Started(j) => jpc[i] \notin {"waiting", "woken"}

\* behind a gate of two, the third and the fourth Job waited and were both
\* released; the third has started and the fourth has yet to
FifoAdmissionWitness ==
    /\ concurrency = 2
    /\ Len(jobs) >= 5
    /\ jpc[1] = "done" /\ jpc[2] = "done"
    /\ jpc[3] = "running"
    /\ jpc[4] = "woken"
    /\ jpc[5] = "waiting"

-----------------------------------------------------------------------------
(* The metadata prefetch: home.ts 490-509 *)

\* the handler reaches the batch: the step that leaves the timeline call
\* with the page
BatchBegins == hpc = "timeline" /\ hpc' \in {"prefetch", "submit"}

(* C28: when the batch begins with prefetch on and budget left, the
   metadata of every host of the Jobs is requested at once, and the wait
   for it is set to min(600 ms, remaining budget), which never reaches
   beyond the budget; while that wait lasts no Job is submitted and no Job
   body has started; when the budget is exhausted as the batch begins, no
   prefetch is started then or later. *)
PrefetchBeforeJobs ==
    [][ /\ BatchBegins /\ prefetchMeta /\ ~budgetExpired =>
              /\ hpc' = "prefetch"
              /\ DOMAIN pf' = { jobs'[j].host : j \in 1..Len(jobs') }
              /\ \A h \in DOMAIN pf' : pf'[h] = "pending"
              /\ pfUntil' - now = Min(600, timeLeft)
              /\ pfUntil' - now <= 600
              /\ budgetMs > 0 => pfUntil' <= hardStart + budgetMs
        /\ BatchBegins /\ budgetExpired => hpc' = "submit" /\ pf' = <<>>
        /\ hpc' = "prefetch" =>
              /\ submitted' = 0
              /\ \A j \in 1..Len(jobs') : jpc'[j] = "new" /\ ~jinfo'[j].started
        /\ hpc' = "submit" /\ hpc = "prefetch" =>
              (\A h \in DOMAIN pf : pf[h] = "done") \/ now >= pfUntil
        /\ pf = <<>> /\ hpc # "timeline" => pf' = <<>> /\ UNCHANGED pfUntil ]_vars

\* the wait was cut to the budget left, shorter than 600 ms; it ended on the
\* timer with a host still unanswered, and only then the Jobs started
PrefetchBeforeJobsWitness ==
    /\ hpc = "await"
    /\ budgetMs > 0
    /\ pfUntil = hardStart + budgetMs
    /\ pfUntil < hardStart + 600
    /\ \E h \in DOMAIN pf : pf[h] = "pending"
    /\ \E j \in JobIds : jinfo[j].started

-----------------------------------------------------------------------------
(* The fallback to show-by-id *)

\* the note a Job holds has a key whose count is not zero
NonZeroKeys(o) == { i \in DOMAIN o.reactions : CountOf(o.reactions[i][2]) # 0 }

\* show-by-URI answered Job j with a non-success status, and show-by-id gave
\* it a note with a non-zero reaction
FellBackToNote(j) ==
    /\ Has(j, "ap_notok")
    /\ Has(j, "notes_obj")
    /\ obj[j].hasReactions
    /\ NonZeroKeys(obj[j]) # {}

\* C29: a Job whose show-by-URI call gave a non-success status (a 404), whose
\* remote note id was derived, and whose show-by-id call gave a note with at
\* least one non-zero reaction ends with a non-empty reaction list on its
\* post; with diagnostics on, the stage of the post is fallback_notes_show_ok
\* from the moment show-by-id returned to the end of the Job and of the
\* request
FallbackStageKept ==
    \A j \in JobIds :
        FellBackToNote(j) =>
            /\ ~Falsy(jobs[j].noteId)
            /\ debug => CurStage(j) = "fallback_notes_show_ok"
            /\ step[j] = "end" =>
                   /\ PostOf(j)._mkReactions.set
                   /\ PostOf(j)._mkReactions.list # <<>>

\* a request with diagnostics on has answered, and one of its Jobs fell back
\* to a note with reactions and attached them
FallbackStageWitness ==
    /\ hpc = "done"
    /\ debug
    /\ \E j \in JobIds :
          /\ FellBackToNote(j)
          /\ step[j] = "end"
          /\ PostOf(j)._mkReactions.set
          /\ response.items[jobs[j].st]._mkDebug = "fallback_notes_show_ok"

-----------------------------------------------------------------------------
(* An exception while one key is resolved *)

\* the keys of Job j's note whose turn has run and was not skipped
RECURSIVE TurnsTaken(_, _)
TurnsTaken(j, upto) ==
    IF upto = 0 THEN 0
    ELSE TurnsTaken(j, upto - 1)
         + (IF SkipZero(CountOf(obj[j].reactions[upto][2]), forceAllReactions) THEN 0 ELSE 1)

\* the turns of Job j that ended in the catch of their key
KeyErrors(j) == Len(SelectSeq(jinfo[j].log, LAMBDA ev : ev = "key_error"))

\* C30: an exception raised while one reaction key is resolved (the durable
\* tier rejecting a call during probing) costs that key's descriptor and
\* nothing else: every other key whose turn has run has its descriptor in the
\* list, the loop goes on to the end of the note, the list is attached to the
\* post, and the Job is not counted as errored
KeyErrorIsLocal ==
    \A j \in JobIds :
        /\ Len(out[j]) + KeyErrors(j) = TurnsTaken(j, rxI[j] - 1)
        /\ ~jinfo[j].errored
        /\ errorCount = 0
        /\ step[j] = "end" =>
               /\ rxI[j] = Len(obj[j].reactions) + 1
               /\ out[j] # <<>> => PostOf(j)._mkReactions = [set |-> TRUE, list |-> out[j]]

\* a Job ended whose note had two counted keys: the turn of the first ended in
\* the catch of its key, the second is attached to the post
KeyErrorWitness ==
    \E j \in JobIds :
        /\ step[j] = "end"
        /\ KeyErrors(j) = 1
        /\ lastRx.job = j /\ lastRx.emit /\ lastRx.urlFrom # "key_error"
        /\ PostOf(j)._mkReactions.set
        /\ PostOf(j)._mkReactions.list = <<lastRx.d>>

-----------------------------------------------------------------------------
(* The process tier for the life of the worker: home.ts 170, 327-358 *)

\* the worker instance goes on: this step is not a cold start
SameWorker == ~(metaMem # <<>> /\ metaMem' = <<>>)

(* C31: once a host's metadata is in the process tier it stays there,
   unchanged, as long as the worker lives, and every later lookup for that
   host returns that entry, leaves the durable tier as it is and calls no
   origin, whatever the durable tier holds by then; a lookup builds and
   stores at most one index, and only for a host that had none. *)
ProcessTierEntryStays ==
    [][/\ SameWorker =>
              \A h \in DOMAIN metaMem : h \in DOMAIN metaMem' /\ metaMem'[h] = metaMem[h]
       /\ \A host \in {normalizeHost(h) : h \in MetaHosts}, outcome \in {"ok", "notok", "throw"} :
              MetaStep(host, outcome) =>
                 /\ host \in DOMAIN metaMem =>
                        /\ MetaStepValue(host, outcome) = metaMem[host]
                        /\ UNCHANGED cacheVars
                 /\ DOMAIN metaMem' \subseteq DOMAIN metaMem \cup {host}
                 /\ netLog' # netLog => host \notin DOMAIN metaMem]_vars

\* the process tier held a host's metadata from the start; lookups for that
\* host and for another one ran, the durable tier holds another text for the
\* host, and the entry is the one it was, with one origin call for the other
\* host
ProcessTierWitness ==
    /\ lastRx.key = MetaKey(AltHost)
    /\ AltHost \in DOMAIN metaMem
    /\ metaMem[AltHost] = buildMetaIndex(MetaOne)
    /\ OriginHost \in DOMAIN metaMem
    /\ CacheAnswers(MetaKey(AltHost))
    /\ buildMetaIndex(kv[MetaKey(AltHost)].text.v) # metaMem[AltHost]
    /\ Len(netLog) = 1
    /\ netLog[1].host = OriginHost

-----------------------------------------------------------------------------
(* Lookups of the same host under way together: home.ts 327-358 *)

\* an indexed metadata object whose two indexes are those of its own lists
FullyIndexed(m) ==
    /\ m.present
    /\ m._emojiByName = EmojiIndex(m.emojis)
    /\ m._aliasByKey = AliasIndex(m.reactionEmojis)

\* call i has just stored what it holds in the process tier
StoredBy(i) ==
    /\ lk[i].pc \in {"kvget", "fetch"}
    /\ lk'[i].held # NoMeta
    /\ metaMem' = MapSet(metaMem, lk[i].host, lk'[i].held)

(* C32: however the calls of getMisskeyMeta for one host interleave at their
   awaits, a call that returned gave either nothing or a fully indexed
   object; every entry of the process tier is a fully indexed object, and
   every change of the process tier (short of a new start of the worker) is
   one call storing the whole index it has just built, over whatever entry
   another call had stored before. *)
LookupsSeeWholeEntries ==
    [][/\ \A h \in DOMAIN metaMem : FullyIndexed(metaMem[h])
       /\ \A h \in DOMAIN metaMem' : FullyIndexed(metaMem'[h])
       /\ \A i \in DOMAIN lk' :
              lk'[i].pc = "done" => lk'[i].ret = NoMeta \/ FullyIndexed(lk'[i].ret)
       /\ metaMem' # metaMem /\ metaMem' # <<>> =>
              \E i \in DOMAIN lk : StoredBy(i) /\ FullyIndexed(lk'[i].held)]_vars

\* two calls for the same host were under way together: both missed the two
\* tiers and fetched the origin, which answered them differently; the first
\* has returned its index and stored the raw answer in the durable tier, and
\* the process tier holds the index of the second, stored last
LastWriteWitness ==
    /\ Len(lk) = 2
    /\ lk[1].host = AltHost /\ lk[2].host = AltHost
    /\ lk[1].pc = "done" /\ lk[2].pc = "kvput"
    /\ lk[1].ret = buildMetaIndex(MetaTwo)
    /\ lk[2].held = buildMetaIndex(RxRemoteMeta)
    /\ Len(netLog) = 2
    /\ netLog[1].host = AltHost /\ netLog[2].host = AltHost
    /\ now = 0
    /\ AltHost \in DOMAIN metaMem
    /\ metaMem[AltHost] = lk[2].held
    /\ MetaKey(AltHost) \in DOMAIN kv
    /\ kv[MetaKey(AltHost)].text.v = MetaTwo

-----------------------------------------------------------------------------
(* The backoff of fetchRetry: home.ts 139-141 *)

(* C33: the delay slept after failed attempt k of fetchRetry, counting from
   0, is backoffMs * 2^k, so each delay is twice the one before; one delay
   lies between two consecutive attempts, and none follows the attempt that
   ends the call. *)
BackoffDoubles ==
    /\ \A k \in 1..Len(fr.waited) : fr.waited[k] = fr.backoffMs * (2 ^ (k - 1))
    /\ \A k \in 2..Len(fr.waited) : fr.waited[k] = 2 * fr.waited[k - 1]
    /\ fr.pc = "try" => Len(fr.waited) = Len(fr.seen)
    /\ fr.pc \in {"backoff", "returned", "threw"} => Len(fr.waited) = Len(fr.seen) - 1

\* with two retries and a backoff of 250 ms, three attempts got 503-like
\* answers: the call slept 250 ms and 500 ms and returned the third answer
\* without a further delay
BackoffWitness ==
    /\ fr.retries = 2
    /\ fr.backoffMs = 250
    /\ fr.seen = <<500, 429, 500>>
    /\ fr.pc = "returned"
    /\ fr.waited = <<250, 500>>

-----------------------------------------------------------------------------
(* The origin calls of the enrichment are not retried: home.ts 220, 349, 391 *)

\* fetchRetry was called for an origin call of the enrichment
OriginCall == fr.op \in {"ap/show", "notes/show", "meta"}

(* C34: the fetchRetry call of each origin lookup of the enrichment (instance
   metadata, show-by-URI, show-by-id) runs with retries = 0: it makes one
   attempt and no more, sleeps no backoff, and ends with that attempt's
   outcome, also when the attempt got a 5xx, 429 or 408 response (which is
   returned) or no response in time (which is thrown). *)
OriginCallsTriedOnce ==
    OriginCall =>
        /\ fr.retries = 0
        /\ Len(fr.seen) <= 1
        /\ Len(netLog) = Len(fr.seen)
        /\ fr.waited = <<>>
        /\ fr.seen # <<>> =>
               IF fr.seen[1] = 0 THEN fr.pc = "threw"
               ELSE fr.pc = "returned" /\ fr.result = fr.seen[1]

\* the show-by-id call got a 503-like answer and returned it after its one
\* attempt
OriginCallWitness ==
    /\ fr.op = "notes/show"
    /\ fr.seen = <<500>>
    /\ fr.pc = "returned"
    /\ fr.result = 500
    /\ Len(netLog) = 1

-----------------------------------------------------------------------------
(* The metadata the Jobs of one host read: home.ts 490-502, 562 *)

\* Job j has read the metadata of its host at home.ts 562
ReadMeta(j) == step[j] \in {"parse", "end"} /\ obj[j].hasReactions

(* C35: within one page request the Jobs of the same origin host that reach
   the reaction loop all read the same metadata for the host: no Job reads
   none while another Job of the request and host reads the metadata a
   prefetch lookup stored after the prefetch wait had ended. *)
SameHostSameMeta ==
    \A j1 \in JobIds, j2 \in JobIds :
        /\ ReadMeta(j1) /\ ReadMeta(j2)
        /\ jobs[j1].host = jobs[j2].host
        => rxMeta[j1] = rxMeta[j2]

-----------------------------------------------------------------------------
(* The page-level counters: home.ts 455-458, 512, 710, 726 *)

JobsThat(P(_)) == Cardinality({ j \in JobIds : P(j) })
IsTried(j) == jinfo[j].tried
IsMerged(j) == jinfo[j].merged
IsErrored(j) == jinfo[j].errored

(* C36: at every moment of a page request, and so at its end, enriched +
   errored <= attempted <= number of Jobs <= merge_limit; no Job is both
   enriched and errored, and none is either without having been attempted;
   when the page is answered each counter is the number of Jobs it counts. *)
CountersOrdered ==
    /\ mergedCount + errorCount <= triedCount
    /\ triedCount <= Len(jobs)
    /\ Len(jobs) <= mergeLimit
    /\ \A j \in JobIds :
          /\ ~(jinfo[j].merged /\ jinfo[j].errored)
          /\ jinfo[j].merged \/ jinfo[j].errored => jinfo[j].tried
    /\ hpc = "done" /\ response.status = 200 =>
          /\ triedCount = JobsThat(IsTried)
          /\ mergedCount = JobsThat(IsMerged)
          /\ errorCount = JobsThat(IsErrored)

\* a page with two Jobs was answered: one Job was enriched, the other ended
\* in the catch of the Job body
CountersWitness ==
    /\ hpc = "done"
    /\ response.status = 200
    /\ Len(jobs) = 2
    /\ triedCount = 2
    /\ mergedCount = 1
    /\ errorCount = 1

-----------------------------------------------------------------------------
(* What the posts of a response carry: home.ts 707-723, 734-743 *)

\* the posts that carry reactions
WithReactions(items) == { i \in 1..Len(items) : items[i]._mkReactions.set }

(* C37: a post carries reactions exactly when it carries originHost, the
   list it carries is not empty, and the posts that carry reactions are as
   many as the enriched counter says, while the Jobs run and in the response
   that goes out. *)
ReactionsWithHost ==
    /\ \A i \in 1..Len(statuses) :
          /\ statuses[i]._mkReactions.set <=> statuses[i]._mkHost.set
          /\ statuses[i]._mkReactions.set => statuses[i]._mkReactions.list # <<>>
          /\ ~statuses[i]._mkReactions.set => statuses[i]._mkReactions.list = <<>>
    /\ Cardinality(WithReactions(statuses)) = mergedCount
    /\ hpc = "done" /\ response.status = 200 =>
          /\ response.items = statuses
          /\ Cardinality(WithReactions(response.items)) = mergedCount

\* a page of three posts was answered: one post carries a list of two
\* reactions and its origin host, the two others carry neither, one of them
\* the post of a Job whose note had no reactions
ReactionsWitness ==
    /\ hpc = "done"
    /\ response.status = 200
    /\ Len(response.items) = 3
    /\ Len(jobs) = 2
    /\ mergedCount = 1
    /\ WithReactions(response.items) = {2}
    /\ Len(response.items[2]._mkReactions.list) = 2
    /\ response.items[2]._mkHost = [set |-> TRUE, val |-> OriginHost]

\* every run() of the batch has settled and the gate is empty
GateDrained ==
    /\ submitted = Len(jobs)
    /\ \A j \in JobIds : jpc[j] \in {"done", "threw"}
    /\ active = 0
    /\ queue = <<>>
    /\ resuming = <<>>

\* C38: when every task settles, by return or by throw, a Job that had to wait
\* at the gate is admitted and a Job that is admitted ends, so the whole batch
\* settles and the gate is left empty; a run() rejects only for a task that
\* rejected, which no Job body of the handler does (home.ts 513, 725).
EveryJobAdmitted ==
    /\ \A j \in GateJobs :
          (j \in JobIds /\ jpc[j] = "waiting") ~> (j \in JobIds /\ jpc[j] = "running")
    /\ \A j \in GateJobs :
          (j \in JobIds /\ jpc[j] = "running") ~> (j \in JobIds /\ jpc[j] \in {"done", "threw"})
    /\ <>[]GateDrained

\* a batch larger than the gate has drained after a task threw: the last Job,
\* which had to wait, has ended all the same
EveryJobAdmittedWitness ==
    /\ GateDrained
    /\ Len(jobs) > concurrency
    /\ jpc[Len(jobs)] = "done"
    /\ \E j \in JobIds : jpc[j] = "threw"
    /\ \A j \in JobIds : j <= concurrency => jpc[j] = "threw"

\* Job j has just been told of event e
NewEvent(j, e) == e \notin Range(jinfo[j].log) /\ e \in Range(jinfo'[j].log)

\* the origin calls that went out in this step
NewCalls == { netLog'[n] : n \in (Len(netLog) + 1)..Len(netLog') }

\* the durable tier holds under key k what it held
KeyKept(k) ==
    /\ k \in DOMAIN kv' <=> k \in DOMAIN kv
    /\ k \in DOMAIN kv => kv'[k] = kv[k]

(* C39: a step in which show-by-URI or show-by-id came back with a non-success
   status leaves both cache tiers exactly as they were; a step in which the
   call of a host's instance metadata came back without metadata leaves the
   process tier as it was and the host's entry of the durable tier as it
   was. *)
FailedLookupWritesNothing ==
    [][/\ \A j \in DOMAIN jinfo :
              NewEvent(j, "ap_notok") \/ NewEvent(j, "notes_notok") =>
                  kv' = kv /\ metaMem' = metaMem
       /\ \A c \in NewCalls :
              c.op = "meta" /\ c.host \notin DOMAIN metaMem' =>
                  metaMem' = metaMem /\ KeyKept(<<"mkmeta:">> \o c.host)]_vars

\* show-by-URI and show-by-id both failed for a Job and neither key answers
\* from the store; the call of a host's metadata failed and neither tier holds
\* anything for the host
FailedLookupWitness ==
    /\ \E j \in DOMAIN jinfo :
          /\ Has(j, "ap_notok") /\ Has(j, "notes_notok")
          /\ ~CacheAnswers(ApKey(jobs[j]))
          /\ ~CacheAnswers(NotesKey(jobs[j]))
    /\ \E n \in DOMAIN netLog :
          /\ netLog[n].op = "meta"
          /\ netLog[n].host \notin DOMAIN metaMem
          /\ (<<"mkmeta:">> \o netLog[n].host) \notin DOMAIN kv

\* the turn that has just been taken gave what resolving its key without any
\* metadata of the Job's host gives, to the post and to both cache tiers
AsWithoutMeta(rx) ==
    \E oracle \in Oracles :
        \E r \in { ResolveKey(Env, rx.key, rx.raw, NoMeta, obj[rx.job].tag, forceAllReactions,
                               jobs[rx.job].host, oracle, originMeta) } :
            /\ r.emit = rx.emit
            /\ r.d = rx.d
            /\ r.urlFrom = rx.urlFrom
            /\ r.env.mem = metaMem'
            /\ r.env.kv = kv'

(* C40: with prefetch disabled the metadata a Job holds for its host is none,
   whatever the process tier holds for that host: no turn counts an alias
   hit or a metadata hit, no URL comes from the host's metadata, and every
   turn gives what it gives when the host has no metadata. *)
NoHostMetaWithoutPrefetch ==
    [][~prefetchMeta /\ lastRx' # lastRx =>
           /\ rxMeta[lastRx'.job] = NoMeta
           /\ counters'.alias_hits = counters.alias_hits
           /\ counters'.meta_hits = counters.meta_hits
           /\ lastRx'.urlFrom # "meta"
           /\ lastRx'.d.branch # "alias_unicode"
           /\ AsWithoutMeta(lastRx')]_vars

\* prefetch is disabled and the process tier knows the emoji of the key and
\* an alias of it; the key has been resolved and its URL is not the
\* metadata's
NoHostMetaWitness ==
    /\ ~prefetchMeta
    /\ OriginHost \in DOMAIN metaMem
    /\ lastRx.key = <<":", "a", "-", "b", ":">>
    /\ resolveEmojiUrlFromMeta(metaMem[OriginHost], normalizeName(lastRx.key)) # <<>>
    /\ lastRx.emit
    /\ lastRx.urlFrom # "meta"
    /\ lastRx.d.url # UrlA

====
